---- MODULE Spec2Model ----
(***************************************************************************)
(* A model of the ufs library (package ufs): the move / merge / backup     *)
(* engine of Path-properties.go, the removal helpers of Removing.go, the   *)
(* copy helper of file-Reader_writer.go and the zip writer / reader of     *)
(* Compress-Extract.go, over an explicit model of the file system.         *)
(*                                                                         *)
(* A path is the sequence of its segments from the root (<<>> is the root  *)
(* directory).  The file system is a function from the existing paths to   *)
(* nodes; every existing path has all its ancestors existing as            *)
(* directories.  Every library function is an operator from a file system  *)
(* (and its arguments and the behaviour of the OS during the call) to the  *)
(* resulting file system and the returned value.                           *)
(***************************************************************************)
EXTENDS Integers, Sequences, FiniteSets, TLC

VARIABLES fs, pre, call

vars == <<fs, pre, call>>

(***************************************************************************)
(* Bounds of the model.                                                    *)
(***************************************************************************)
\* nesting depth of the directories of the initial trees
MaxDepth == 1
\* longest path (in segments) the OS accepts: models ENAMETOOLONG
PathMax == 4
\* number of records of a hand-made archive
MaxRecs == 2

\* the longest file that is split, in bytes, and the largest small chunk size
MaxLen == 3

MaxChunk == 4

(***************************************************************************)
(* Paths.                                                                  *)
(***************************************************************************)
Dir(p) == IF Len(p) = 0 THEN p ELSE SubSeq(p, 1, Len(p) - 1)

Base(p) == p[Len(p)]

Join(p, q) == p \o q

IsPrefix(p, q) == Len(p) <= Len(q) /\ SubSeq(q, 1, Len(p)) = p

Bak(p) == [p EXCEPT ![Len(p)] = @ \o ".bak"]

NoPath == <<>>

(***************************************************************************)
(* Nodes.  A regular file carries its bytes; a zip archive is a regular    *)
(* file whose content is the sequence of its records (arch = {records}).   *)
(***************************************************************************)
DirNode == [kind |-> "dir", data |-> <<>>, arch |-> {}]

FileNode(d) == [kind |-> "file", data |-> d, arch |-> {}]

ZipNode(recs) == [kind |-> "file", data |-> <<>>, arch |-> {recs}]

EmptyFn == <<>>

Merge(f, g) == [p \in (DOMAIN f) \cup (DOMAIN g) |-> IF p \in DOMAIN f THEN f[p] ELSE g[p]]

Restrict(f, S) == [p \in S |-> f[p]]

Under(f, p) == {q \in DOMAIN f : IsPrefix(p, q)}

Entries(f, p) == {q \in DOMAIN f : Len(q) = Len(p) + 1 /\ IsPrefix(p, q)}

\* the tree below p, as a function of the paths relative to p (p itself excluded)
SubTree(f, p) == [r \in {SubSeq(q, Len(p) + 1, Len(q)) : q \in Under(f, p) \ {p}} |-> f[Join(p, r)]]

\* the paths of a tree relative to its top, the top (<<>>) included
RelPaths(f, p) == {SubSeq(q, Len(p) + 1, Len(q)) : q \in Under(f, p)}

WellFormed(f) ==
    /\ <<>> \in DOMAIN f
    /\ \A p \in DOMAIN f : p # <<>> => Dir(p) \in DOMAIN f /\ f[Dir(p)].kind = "dir"

(***************************************************************************)
(* The behaviour of the OS during one call.                                *)
(*   xdev : every os.Rename fails (source and destination on different     *)
(*          devices)                                                       *)
(*   ro   : the tree of the top-level entry "s" is write-protected:        *)
(*          nothing is created, removed or renamed in it                   *)
(*   full : no data can be written: a file is created but a copy of one    *)
(*          or more bytes into it fails                                    *)
(***************************************************************************)
Envs == [xdev : BOOLEAN, ro : BOOLEAN, full : BOOLEAN]

NoFault == [xdev |-> FALSE, ro |-> FALSE, full |-> FALSE]

Protected(p, env) == env.ro /\ Len(p) > 0 /\ p[1] = "s"

Res(f, b) == [fs |-> f, ok |-> b]

(***************************************************************************)
(* OS primitives (package os).                                             *)
(***************************************************************************)
RECURSIVE osMkdirAll(_, _, _)
osMkdirAll(f, p, env) ==
    LET made(r) == IF ~r.ok THEN r
                   ELSE IF Len(p) > PathMax \/ Protected(p, env) THEN Res(r.fs, FALSE)
                   ELSE Res(Merge(r.fs, [q \in {p} |-> DirNode]), TRUE)
    IN  IF p \in DOMAIN f THEN Res(f, f[p].kind = "dir")
        ELSE made(osMkdirAll(f, Dir(p), env))

osRemove(f, p, env) ==
    IF p \notin DOMAIN f \/ p = <<>> THEN Res(f, FALSE)
    ELSE IF Entries(f, p) # {} THEN Res(f, FALSE)
    ELSE IF Protected(p, env) THEN Res(f, FALSE)
    ELSE Res(Restrict(f, (DOMAIN f) \ {p}), TRUE)

osRemoveAll(f, p, env) ==
    IF p \notin DOMAIN f THEN Res(f, TRUE)
    ELSE IF p = <<>> \/ Protected(p, env) THEN Res(f, FALSE)
    ELSE Res(Restrict(f, (DOMAIN f) \ Under(f, p)), TRUE)

osRenameFails(f, src, dst, env) ==
    \/ env.xdev
    \/ src \notin DOMAIN f
    \/ src = <<>> \/ dst = <<>>
    \/ (dst \in DOMAIN f /\ f[dst].kind = "dir")
    \/ Dir(dst) \notin DOMAIN f
    \/ f[Dir(dst)].kind # "dir"
    \/ (f[src].kind = "dir" /\ dst \in DOMAIN f)
    \/ (src # dst /\ IsPrefix(src, dst))
    \/ Len(dst) > PathMax
    \/ Protected(src, env) \/ Protected(dst, env)

osRename(f, src, dst, env) ==
    IF osRenameFails(f, src, dst, env) THEN Res(f, FALSE)
    ELSE IF src = dst THEN Res(f, TRUE)
    ELSE LET moved == Under(f, src)
             rest  == Restrict(f, (DOMAIN f) \ (moved \cup {dst}))
             there == [q \in {Join(dst, SubSeq(m, Len(src) + 1, Len(m))) : m \in moved}
                          |-> f[Join(src, SubSeq(q, Len(dst) + 1, Len(q)))]]
         IN  Res(Merge(there, rest), TRUE)

\* os.Create: create or truncate
osCreate(f, p, env) ==
    IF \/ p = <<>>
       \/ Dir(p) \notin DOMAIN f
       \/ f[Dir(p)].kind # "dir"
       \/ (p \in DOMAIN f /\ f[p].kind = "dir")
       \/ Len(p) > PathMax
       \/ Protected(p, env)
    THEN Res(f, FALSE)
    ELSE Res(Merge([q \in {p} |-> FileNode(<<>>)], f), TRUE)

\* io.Copy into a file that was just created
osWrite(f, p, node, env) ==
    IF env.full /\ (node.data # <<>> \/ node.arch # {}) THEN Res(f, FALSE)
    ELSE Res([f EXCEPT ![p] = node], TRUE)

(***************************************************************************)
(* os.ReadDir returns the entries sorted by file name.                     *)
(***************************************************************************)
NameOrder == <<"a", "a.bak", "d", "d.bak", "e", "m", "m.bak", "n", "o", "s", "s.bak", "x", "x.bak", "z", "z.bak">>

Rank(n) == IF \E i \in 1..Len(NameOrder) : NameOrder[i] = n
           THEN CHOOSE i \in 1..Len(NameOrder) : NameOrder[i] = n
           ELSE 0

RECURSIVE SortNames(_)
SortNames(S) ==
    IF S = {} THEN <<>>
    ELSE LET n == CHOOSE x \in S : \A y \in S : Rank(x) <= Rank(y)
         IN  <<n>> \o SortNames(S \ {n})

\* the entries of directory p: name and kind, in name order
osReadDir(f, p) ==
    LET names == SortNames({Base(q) : q \in Entries(f, p)})
    IN  [i \in 1..Len(names) |-> [name |-> names[i], isDir |-> f[Join(p, <<names[i]>>)].kind = "dir"]]

(***************************************************************************)
(* Path-properties.go: predicates.                                         *)
(***************************************************************************)
PathExists(f, p) == p \in DOMAIN f

IsFile(f, p) == p \in DOMAIN f /\ f[p].kind # "dir"

IsDirectory(f, p) == p \in DOMAIN f /\ f[p].kind = "dir"

IsDirectoryEmpty(f, p) == IsDirectory(f, p) /\ Len(osReadDir(f, p)) = 0

IsFileEmpty(f, p) == IsFile(f, p) /\ f[p].data = <<>> /\ f[p].arch = {}

(***************************************************************************)
(* Creations.go, Removing.go, file-Reader_writer.go.                       *)
(***************************************************************************)
CreateDirectory(f, p, env) == osMkdirAll(f, p, env)

RemoveFile(f, p, env) ==
    IF ~IsFile(f, p) THEN Res(f, FALSE)
    ELSE osRemove(f, p, env)

RemoveDirectory(f, p, env) ==
    IF ~IsDirectory(f, p) THEN Res(f, FALSE)
    ELSE IF ~IsDirectoryEmpty(f, p) THEN Res(f, FALSE)
    ELSE osRemove(f, p, env)

RemoveDirectoryRecursive(f, p, env) ==
    IF ~IsDirectory(f, p) THEN Res(f, FALSE)
    ELSE osRemoveAll(f, p, env)

\* Each step of a function is an operator applied to the result of the step
\* before it: ensured(m) is what follows "Ensure the destination directory
\* exists", created(c) what follows os.Create.
CopyFile(f, src, dst, env) ==
    LET created(c) == IF ~c.ok THEN Res(c.fs, FALSE)
                      ELSE IF src = dst THEN Res(c.fs, TRUE)
                      ELSE osWrite(c.fs, dst, f[src], env)
        ensured(m) == IF ~m.ok THEN Res(m.fs, FALSE)
                      ELSE created(osCreate(m.fs, dst, env))
    IN  IF ~IsFile(f, src) THEN Res(f, FALSE)
        ELSE ensured(IF IsDirectory(f, Dir(dst)) THEN Res(f, TRUE)
                     ELSE osMkdirAll(f, Dir(dst), env))

DeleteFile(f, p, env) == RemoveFile(f, p, env)

DeleteDirectory(f, p, env) == RemoveDirectoryRecursive(f, p, env)

(***************************************************************************)
(* Path-properties.go: the move engine.                                    *)
(***************************************************************************)
\* a variant that creates the destination file without copying the bytes
copyThenDelete_EmptyCopy(f, srcPath, destPath, env) ==
    LET created(c) == IF ~c.ok THEN Res(c.fs, FALSE)
                      ELSE DeleteFile(c.fs, srcPath, env)
    IN  created(osCreate(f, destPath, env))

\* a variant that leaves the copy at the destination when the source cannot
\* be deleted
copyThenDelete_KeepsCopy(f, srcPath, destPath, env) ==
    LET deleted(d) == Res(d.fs, d.ok)
        copied(c) == IF ~c.ok THEN Res(c.fs, FALSE)
                     ELSE deleted(DeleteFile(c.fs, srcPath, env))
    IN  copied(CopyFile(f, srcPath, destPath, env))

copyThenDelete(f, srcPath, destPath, env) ==
    LET deleted(d) == IF ~d.ok THEN Res(DeleteFile(d.fs, destPath, env).fs, FALSE)
                      ELSE Res(d.fs, TRUE)
        copied(c) == IF ~c.ok THEN Res(c.fs, FALSE)
                     ELSE deleted(DeleteFile(c.fs, srcPath, env))
    IN  copied(CopyFile(f, srcPath, destPath, env))

MoveFile(f, srcPath, destPath, env) ==
    LET renamed(n) == IF n.ok THEN n
                      ELSE copyThenDelete(n.fs, srcPath, destPath, env)
        cleared(r) == IF ~r.ok THEN Res(r.fs, FALSE)
                      ELSE renamed(osRename(r.fs, srcPath, destPath, env))
        ensured(m) == IF ~m.ok THEN Res(m.fs, FALSE)
                      ELSE cleared(IF IsFile(m.fs, destPath) THEN RemoveFile(m.fs, destPath, env)
                                   ELSE Res(m.fs, TRUE))
    IN  IF ~IsFile(f, srcPath) THEN Res(f, FALSE)
        ELSE ensured(IF IsDirectory(f, Dir(destPath)) THEN Res(f, TRUE)
                     ELSE CreateDirectory(f, Dir(destPath), env))

\* a variant that prepares the destination's parent before looking at the source
MoveFileIfExists_ParentFirst(f, srcPath, destPath, env) ==
    LET ensured(m) == IF ~IsFile(m.fs, srcPath) THEN Res(m.fs, TRUE)
                      ELSE MoveFile(m.fs, srcPath, destPath, env)
    IN  ensured(osMkdirAll(f, Dir(destPath), env))

MoveFileIfExists(f, srcPath, destPath, env) ==
    IF ~IsFile(f, srcPath) THEN Res(f, TRUE)
    ELSE MoveFile(f, srcPath, destPath, env)

RECURSIVE MoveDirectory(_, _, _, _)
RECURSIVE mergeEntries(_, _, _, _, _, _, _)

MoveDirectoryIfExists(f, srcPath, destPath, env) ==
    IF ~IsDirectory(f, srcPath) THEN Res(f, TRUE)
    ELSE MoveDirectory(f, srcPath, destPath, env)

\* the loop of mergeDirectories over the entries read at its start
mergeEntries(f, srcPath, destPath, entries, i, success, env) ==
    LET srcItemPath  == Join(srcPath, <<entries[i].name>>)
        destItemPath == Join(destPath, <<entries[i].name>>)
        moved(r) == mergeEntries(r.fs, srcPath, destPath, entries, i + 1, success /\ r.ok, env)
    IN  IF i > Len(entries) THEN Res(f, success)
        ELSE moved(IF entries[i].isDir
                   THEN MoveDirectoryIfExists(f, srcItemPath, destItemPath, env)
                   ELSE MoveFileIfExists(f, srcItemPath, destItemPath, env))

\* a variant that removes the source with whatever is left in it
removeMerged_WithEntries(l, srcPath, env) == osRemoveAll(l.fs, srcPath, env)

\* the end of mergeDirectories: "if success { os.Remove(srcPath) }"
removeMerged(l, srcPath, env) ==
    IF l.ok THEN osRemove(l.fs, srcPath, env)
    ELSE l

mergeDirectories(f, srcPath, destPath, env) ==
    LET merged(l) == removeMerged(l, srcPath, env)
    IN  IF ~IsDirectory(f, srcPath) THEN Res(f, FALSE)
        ELSE merged(mergeEntries(f, srcPath, destPath, osReadDir(f, srcPath), 1, TRUE, env))

\* a variant that replaces a file at the destination by the directory
MoveDirectory_ReplacesFile(f, srcPath, destPath, env) ==
    LET created(c) == IF ~c.ok THEN Res(c.fs, FALSE)
                      ELSE mergeDirectories(c.fs, srcPath, destPath, env)
        renamed(n) == IF n.ok THEN n
                      ELSE IF IsDirectory(n.fs, destPath)
                           THEN mergeDirectories(n.fs, srcPath, destPath, env)
                      ELSE created(CreateDirectory(n.fs, destPath, env))
        cleared(r) == IF ~r.ok THEN Res(r.fs, FALSE)
                      ELSE renamed(IF ~PathExists(r.fs, destPath)
                                   THEN osRename(r.fs, srcPath, destPath, env)
                                   ELSE Res(r.fs, FALSE))
        ensured(m) == IF ~m.ok THEN Res(m.fs, FALSE)
                      ELSE cleared(IF IsFile(m.fs, destPath) THEN RemoveFile(m.fs, destPath, env)
                                   ELSE Res(m.fs, TRUE))
    IN  IF ~IsDirectory(f, srcPath) THEN Res(f, FALSE)
        ELSE ensured(IF IsDirectory(f, Dir(destPath)) THEN Res(f, TRUE)
                     ELSE CreateDirectory(f, Dir(destPath), env))

MoveDirectory(f, srcPath, destPath, env) ==
    LET created(c) == IF ~c.ok THEN Res(c.fs, FALSE)
                      ELSE mergeDirectories(c.fs, srcPath, destPath, env)
        renamed(n) == IF n.ok THEN n
                      ELSE IF IsDirectory(n.fs, destPath)
                           THEN mergeDirectories(n.fs, srcPath, destPath, env)
                      ELSE IF IsFile(n.fs, destPath) THEN Res(n.fs, FALSE)
                      ELSE created(CreateDirectory(n.fs, destPath, env))
        ensured(m) == IF ~m.ok THEN Res(m.fs, FALSE)
                      ELSE renamed(IF ~PathExists(m.fs, destPath)
                                   THEN osRename(m.fs, srcPath, destPath, env)
                                   ELSE Res(m.fs, FALSE))
    IN  IF ~IsDirectory(f, srcPath) THEN Res(f, FALSE)
        ELSE ensured(IF IsDirectory(f, Dir(destPath)) THEN Res(f, TRUE)
                     ELSE CreateDirectory(f, Dir(destPath), env))

DeleteFileIfExists(f, path, env) ==
    IF ~IsFile(f, path) THEN Res(f, TRUE)
    ELSE DeleteFile(f, path, env)

DeleteDirectoryIfExists(f, path, env) ==
    IF ~IsDirectory(f, path) THEN Res(f, TRUE)
    ELSE DeleteDirectory(f, path, env)

\* a variant that deletes the directory without asking whether it is empty
DeleteDirectoryIfEmpty_NoCheck(f, path, env) ==
    IF ~IsDirectory(f, path) THEN Res(f, FALSE)
    ELSE DeleteDirectory(f, path, env)

DeleteDirectoryIfEmpty(f, path, env) ==
    IF ~IsDirectory(f, path) THEN Res(f, FALSE)
    ELSE IF ~IsDirectoryEmpty(f, path) THEN Res(f, FALSE)
    ELSE RemoveDirectory(f, path, env)

MoveDirectoryIfEmpty(f, srcPath, destPath, env) ==
    IF ~IsDirectory(f, srcPath) THEN Res(f, FALSE)
    ELSE IF ~IsDirectoryEmpty(f, srcPath) THEN Res(f, FALSE)
    ELSE MoveDirectory(f, srcPath, destPath, env)

\* a variant that moves the file whatever its size
MoveFileIfEmpty_NoCheck(f, srcPath, destPath, env) ==
    IF ~IsFile(f, srcPath) THEN Res(f, FALSE)
    ELSE MoveFile(f, srcPath, destPath, env)

MoveFileIfEmpty(f, srcPath, destPath, env) ==
    IF ~IsFile(f, srcPath) THEN Res(f, FALSE)
    ELSE IF ~IsFileEmpty(f, srcPath) THEN Res(f, FALSE)
    ELSE MoveFile(f, srcPath, destPath, env)

DeleteFileIfEmpty(f, path, env) ==
    IF ~IsFile(f, path) THEN Res(f, FALSE)
    ELSE IF ~IsFileEmpty(f, path) THEN Res(f, FALSE)
    ELSE DeleteFile(f, path, env)

RECURSIVE copyDirectoryRecursive(_, _, _, _)
RECURSIVE copyEntries(_, _, _, _, _, _, _)

\* a variant that forgets the failure of an entry
RECURSIVE copyEntries_IgnoresFailures(_, _, _, _, _, _, _)
copyEntries_IgnoresFailures(f, srcPath, destPath, entries, i, success, env) ==
    LET srcItemPath  == Join(srcPath, <<entries[i].name>>)
        destItemPath == Join(destPath, <<entries[i].name>>)
        copied(r) == copyEntries_IgnoresFailures(r.fs, srcPath, destPath, entries, i + 1, success, env)
    IN  IF i > Len(entries) THEN Res(f, success)
        ELSE copied(IF entries[i].isDir
                    THEN copyDirectoryRecursive(f, srcItemPath, destItemPath, env)
                    ELSE CopyFile(f, srcItemPath, destItemPath, env))

\* the loop of copyDirectoryRecursive over the entries read at its start
copyEntries(f, srcPath, destPath, entries, i, success, env) ==
    LET srcItemPath  == Join(srcPath, <<entries[i].name>>)
        destItemPath == Join(destPath, <<entries[i].name>>)
        copied(r) == copyEntries(r.fs, srcPath, destPath, entries, i + 1, success /\ r.ok, env)
    IN  IF i > Len(entries) THEN Res(f, success)
        ELSE copied(IF entries[i].isDir
                    THEN copyDirectoryRecursive(f, srcItemPath, destItemPath, env)
                    ELSE CopyFile(f, srcItemPath, destItemPath, env))

copyDirectoryRecursive(f, srcPath, destPath, env) ==
    LET created(c) == IF ~c.ok THEN Res(c.fs, FALSE)
                      ELSE IF ~IsDirectory(c.fs, srcPath) THEN Res(c.fs, FALSE)
                      ELSE copyEntries(c.fs, srcPath, destPath, osReadDir(c.fs, srcPath), 1, TRUE, env)
    IN  created(CreateDirectory(f, destPath, env))

BRes(f, b, backupPath) == [fs |-> f, ok |-> b, backup |-> backupPath]

\* a variant that leaves an existing backup in place
removeStaleBackup_Keeps(f, backupPath, env) == Res(f, TRUE)

\* "Remove any existing backup" (the same block in both backup functions)
removeStaleBackup(f, backupPath, env) ==
    IF ~PathExists(f, backupPath) THEN Res(f, TRUE)
    ELSE IF IsFile(f, backupPath) THEN RemoveFile(f, backupPath, env)
    ELSE IF IsDirectory(f, backupPath) THEN RemoveDirectoryRecursive(f, backupPath, env)
    ELSE Res(f, TRUE)

\* "If destination exists, create a backup"
backupDestination(f, destPath, env) ==
    LET backupPath == Bak(destPath)
        aside(b) == BRes(b.fs, b.ok, backupPath)
        removed(s) == IF ~s.ok THEN BRes(s.fs, FALSE, NoPath)
                      ELSE aside(IF IsFile(s.fs, destPath)
                                 THEN MoveFile(s.fs, destPath, backupPath, env)
                                 ELSE IF IsDirectory(s.fs, destPath)
                                      THEN MoveDirectory(s.fs, destPath, backupPath, env)
                                 ELSE Res(s.fs, TRUE))
    IN  IF ~PathExists(f, destPath) THEN BRes(f, TRUE, NoPath)
        ELSE removed(removeStaleBackup(f, backupPath, env))

\* "Restore from backup if move failed"
restoreBackup(f, backupPath, destPath, env) ==
    IF IsFile(f, backupPath) THEN MoveFile(f, backupPath, destPath, env).fs
    ELSE IF IsDirectory(f, backupPath) THEN MoveDirectory(f, backupPath, destPath, env).fs
    ELSE f

\* a variant that copies the source to the destination and leaves the source
moveIn_CopyOnly(f, srcPath, destPath, env) ==
    IF IsFile(f, srcPath) THEN CopyFile(f, srcPath, destPath, env)
    ELSE IF IsDirectory(f, srcPath) THEN copyDirectoryRecursive(f, srcPath, destPath, env)
    ELSE Res(f, FALSE)

\* "Perform the move"; the third branch is the early return for a source
\* that is neither a file nor a directory
moveIn(f, srcPath, destPath, env) ==
    IF IsFile(f, srcPath) THEN MoveFile(f, srcPath, destPath, env)
    ELSE IF IsDirectory(f, srcPath) THEN MoveDirectory(f, srcPath, destPath, env)
    ELSE Res(f, FALSE)

MoveWithBackup(f, srcPath, destPath, env) ==
    LET moved(b, m) == IF ~m.ok /\ b.backup # NoPath
                       THEN BRes(restoreBackup(m.fs, b.backup, destPath, env), FALSE, NoPath)
                       ELSE BRes(m.fs, m.ok, b.backup)
        backedUp(b) == IF ~b.ok THEN BRes(b.fs, FALSE, NoPath)
                       ELSE IF ~IsFile(b.fs, srcPath) /\ ~IsDirectory(b.fs, srcPath)
                            THEN BRes(b.fs, FALSE, b.backup)
                       ELSE moved(b, moveIn(b.fs, srcPath, destPath, env))
    IN  backedUp(backupDestination(f, destPath, env))

DeleteWithBackup(f, path, env) ==
    LET backupPath == Bak(path)
        deleted(d) == BRes(d.fs, d.ok, backupPath)
        fileCopied(c) == IF ~c.ok THEN BRes(c.fs, FALSE, NoPath)
                         ELSE deleted(DeleteFile(c.fs, path, env))
        dirCopied(c) == IF ~c.ok THEN BRes(c.fs, FALSE, NoPath)
                        ELSE deleted(DeleteDirectory(c.fs, path, env))
        removed(s) == IF ~s.ok THEN BRes(s.fs, FALSE, NoPath)
                      ELSE IF IsFile(s.fs, path)
                           THEN fileCopied(CopyFile(s.fs, path, backupPath, env))
                      ELSE IF IsDirectory(s.fs, path)
                           THEN dirCopied(copyDirectoryRecursive(s.fs, path, backupPath, env))
                      ELSE BRes(s.fs, FALSE, NoPath)
    IN  IF ~PathExists(f, path) THEN BRes(f, FALSE, NoPath)
        ELSE removed(removeStaleBackup(f, backupPath, env))

(***************************************************************************)
(* Compress-Extract.go.  A record of an archive is the name stored in its  *)
(* header, split at the separators (so "/etc/x" is <<"", "etc", "x">> and  *)
(* "a/" is <<"a", "">>), and the node it stores.                           *)
(***************************************************************************)
Rec(name, node) == [name |-> name, node |-> node]

\* filepath.Clean of a rooted path
RECURSIVE CleanFrom(_, _, _)
CleanFrom(acc, p, i) ==
    IF i > Len(p) THEN acc
    ELSE IF p[i] = "" \/ p[i] = "." THEN CleanFrom(acc, p, i + 1)
    ELSE IF p[i] = ".." THEN CleanFrom(Dir(acc), p, i + 1)
    ELSE CleanFrom(Append(acc, p[i]), p, i + 1)

Clean(p) == CleanFrom(<<>>, p, 1)

\* a variant in which an absolute name replaces the destination
JoinClean_AbsoluteWins(destPath, name) ==
    IF Len(name) > 0 /\ name[1] = "" THEN Clean(name) ELSE Clean(destPath \o name)

\* filepath.Join(destPath, name)
JoinClean(destPath, name) == Clean(destPath \o name)

\* a variant that accepts every resolved path
HasDestPrefix_Unchecked(filePath, destPath) == destPath # <<>>

\* strings.HasPrefix(filePath, filepath.Clean(destPath) + "/")
HasDestPrefix(filePath, destPath) ==
    /\ destPath # <<>>
    /\ Len(filePath) > Len(destPath)
    /\ IsPrefix(Clean(destPath), filePath)

\* file.FileInfo().IsDir(): the stored mode, or a name ending in "/"
RecIsDir(rec) ==
    \/ rec.node.kind = "dir"
    \/ (Len(rec.name) > 0 /\ rec.name[Len(rec.name)] = "")

extractZipFile(f, rec, destPath, env) ==
    LET filePath == JoinClean(destPath, rec.name)
        created(c) == IF ~c.ok THEN Res(c.fs, FALSE)
                      ELSE osWrite(c.fs, filePath, rec.node, env)
        ensured(m) == IF ~m.ok THEN Res(m.fs, FALSE)
                      ELSE created(osCreate(m.fs, filePath, env))
    IN  IF ~HasDestPrefix(filePath, destPath) THEN Res(f, FALSE)
        ELSE IF RecIsDir(rec) THEN osMkdirAll(f, filePath, env)
        ELSE ensured(osMkdirAll(f, Dir(filePath), env))

\* a variant that goes on with the next record after a failure
RECURSIVE extractRecords_Continues(_, _, _, _, _)
extractRecords_Continues(f, recs, i, destPath, env) ==
    LET rest(r, n) == Res(n.fs, r.ok /\ n.ok)
        extracted(r) == rest(r, extractRecords_Continues(r.fs, recs, i + 1, destPath, env))
    IN  IF i > Len(recs) THEN Res(f, TRUE)
        ELSE extracted(extractZipFile(f, recs[i], destPath, env))

\* the loop of ExtractArchive over reader.File
RECURSIVE extractRecords(_, _, _, _, _)
extractRecords(f, recs, i, destPath, env) ==
    LET extracted(r) == IF ~r.ok THEN Res(r.fs, FALSE)
                        ELSE extractRecords(r.fs, recs, i + 1, destPath, env)
    IN  IF i > Len(recs) THEN Res(f, TRUE)
        ELSE extracted(extractZipFile(f, recs[i], destPath, env))

ExtractArchive(f, sourcePath, destPath, env) ==
    LET opened(g) == extractRecords(g, CHOOSE r \in g[sourcePath].arch : TRUE, 1, destPath, env)
        ensured(m) == IF ~m.ok THEN Res(m.fs, FALSE)
                      ELSE IF m.fs[sourcePath].arch = {} THEN Res(m.fs, FALSE)
                      ELSE opened(m.fs)
    IN  IF ~IsFile(f, sourcePath) THEN Res(f, FALSE)
        ELSE ensured(IF IsDirectory(f, destPath) THEN Res(f, TRUE)
                     ELSE osMkdirAll(f, destPath, env))

\* filepath.Walk: the root, then its entries in name order, depth first
RECURSIVE Walk(_, _)
RECURSIVE walkEntries(_, _, _, _)
walkEntries(f, p, entries, i) ==
    IF i > Len(entries) THEN <<>>
    ELSE Walk(f, Join(p, <<entries[i].name>>)) \o walkEntries(f, p, entries, i + 1)

Walk(f, p) ==
    IF f[p].kind = "dir" THEN <<p>> \o walkEntries(f, p, osReadDir(f, p), 1)
    ELSE <<p>>

\* a variant that writes records for files only
RECURSIVE walkRecords_FilesOnly(_, _, _, _, _)
walkRecords_FilesOnly(f, paths, i, sourcePath, destPath) ==
    LET path == paths[i]
        own == IF path = sourcePath \/ path = destPath \/ f[path].kind = "dir" THEN <<>>
               ELSE <<Rec(SubSeq(path, Len(sourcePath) + 1, Len(path)), f[path])>>
    IN  IF i > Len(paths) THEN <<>>
        ELSE own \o walkRecords_FilesOnly(f, paths, i + 1, sourcePath, destPath)

\* a variant that writes a record for every entry but the root: the archive,
\* when it is walked, holds what the buffered zip writer has flushed so far
RECURSIVE walkRecords_WithArchive(_, _, _, _, _)
walkRecords_WithArchive(f, paths, i, sourcePath, destPath) ==
    LET path == paths[i]
        own == IF path = sourcePath THEN <<>>
               ELSE <<Rec(SubSeq(path, Len(sourcePath) + 1, Len(path)), f[path])>>
    IN  IF i > Len(paths) THEN <<>>
        ELSE own \o walkRecords_WithArchive(f, paths, i + 1, sourcePath, destPath)

\* the records the walk function of CompressDirectory writes; sourcePath and
\* destPath went through filepath.Abs, and the walk reports cleaned paths
\* under sourcePath, so that path == destPath compares paths
RECURSIVE walkRecords(_, _, _, _, _)
walkRecords(f, paths, i, sourcePath, destPath) ==
    LET path == paths[i]
        own == IF path = sourcePath THEN <<>>
               ELSE IF path = destPath THEN <<>>
               ELSE <<Rec(SubSeq(path, Len(sourcePath) + 1, Len(path)), f[path])>>
    IN  IF i > Len(paths) THEN <<>>
        ELSE own \o walkRecords(f, paths, i + 1, sourcePath, destPath)

\* a variant that prepares the archive's parent before looking at the source
CompressDirectory_ParentFirst(f, sourcePath, destPath, env, surfaced) ==
    LET created(c) == IF ~c.ok THEN Res(c.fs, FALSE)
                      ELSE IF env.full THEN Res(c.fs, ~surfaced)
                      ELSE Res([c.fs EXCEPT ![destPath] =
                                   ZipNode(walkRecords(c.fs, Walk(c.fs, sourcePath), 1, sourcePath, destPath))],
                               TRUE)
        ensured(m) == IF ~m.ok THEN Res(m.fs, FALSE)
                      ELSE IF ~IsDirectory(m.fs, sourcePath) THEN Res(m.fs, FALSE)
                      ELSE created(osCreate(m.fs, destPath, env))
    IN  ensured(IF IsDirectory(f, Dir(destPath)) THEN Res(f, TRUE)
                ELSE osMkdirAll(f, Dir(destPath), env))

\* surfaced: when no data can be written, whether a write error came back
\* during the walk (the writer buffers, and the error of the deferred Close
\* is dropped)
CompressDirectory(f, sourcePath, destPath, env, surfaced) ==
    LET created(c) == IF ~c.ok THEN Res(c.fs, FALSE)
                      ELSE IF env.full THEN Res(c.fs, ~surfaced)
                      ELSE Res([c.fs EXCEPT ![destPath] =
                                   ZipNode(walkRecords(c.fs, Walk(c.fs, sourcePath), 1, sourcePath, destPath))],
                               TRUE)
        ensured(m) == IF ~m.ok THEN Res(m.fs, FALSE)
                      ELSE created(osCreate(m.fs, destPath, env))
    IN  IF ~IsDirectory(f, sourcePath) THEN Res(f, FALSE)
        ELSE ensured(IF IsDirectory(f, Dir(destPath)) THEN Res(f, TRUE)
                     ELSE osMkdirAll(f, Dir(destPath), env))

CompressAndRemove(f, sourcePath, destPath, env, surfaced) ==
    LET compressed(c) == IF ~c.ok THEN Res(c.fs, FALSE)
                         ELSE osRemoveAll(c.fs, sourcePath, env)
    IN  compressed(CompressDirectory(f, sourcePath, destPath, env, surfaced))

CompressAndExtract(f, sourcePath, tempPath, finalPath, env, surfaced) ==
    LET extracted(e) == IF ~e.ok THEN Res(e.fs, FALSE)
                        ELSE osRemove(e.fs, tempPath, env)
        compressed(c) == IF ~c.ok THEN Res(c.fs, FALSE)
                         ELSE extracted(ExtractArchive(c.fs, tempPath, finalPath, env))
    IN  compressed(CompressDirectory(f, sourcePath, tempPath, env, surfaced))

(***************************************************************************)
(* Directory trees (Creations.go, Removing.go).  A structure is a map from *)
(* directory names to nil or to a nested structure; Go ranges over a map   *)
(* in an unspecified order, which is the input order: the keys of every    *)
(* level are visited as they come in that sequence.                        *)
(***************************************************************************)
NilVal == [nil |-> TRUE, sub |-> EmptyFn]

MapVal(S) == [nil |-> FALSE, sub |-> S]

keysIn(S, order) == SelectSeq(order, LAMBDA k : k \in DOMAIN S)

RECURSIVE CreateDirectoryTree(_, _, _, _, _)
RECURSIVE createEntries(_, _, _, _, _, _, _)
\* the loop of CreateDirectoryTree; the result of CreateDirectory is true on
\* success, and the loop returns false when it is true
createEntries(f, basePath, structure, keys, i, order, env) ==
    LET dirPath == Join(basePath, <<keys[i]>>)
        nested(n) == IF ~n.ok THEN Res(n.fs, FALSE)
                     ELSE createEntries(n.fs, basePath, structure, keys, i + 1, order, env)
        created(c) == IF c.ok THEN Res(c.fs, FALSE)
                      ELSE IF ~structure[keys[i]].nil
                           THEN nested(CreateDirectoryTree(c.fs, dirPath, structure[keys[i]].sub, order, env))
                           ELSE createEntries(c.fs, basePath, structure, keys, i + 1, order, env)
    IN  IF i > Len(keys) THEN Res(f, TRUE)
        ELSE created(CreateDirectory(f, dirPath, env))

CreateDirectoryTree(f, basePath, structure, order, env) ==
    LET based(b) == IF ~b.ok THEN Res(b.fs, FALSE)
                    ELSE createEntries(b.fs, basePath, structure, keysIn(structure, order), 1, order, env)
    IN  based(CreateDirectory(f, basePath, env))

RECURSIVE RemoveDirectoryTree(_, _, _, _, _)
RECURSIVE removeEntries(_, _, _, _, _, _, _, _)
\* the loop of RemoveDirectoryTree
removeEntries(f, basePath, structure, keys, i, order, env, success) ==
    LET dirPath == Join(basePath, <<keys[i]>>)
        removed(r, ok) == removeEntries(r.fs, basePath, structure, keys, i + 1, order, env, ok /\ r.ok)
        emptied(n) == IF IsDirectoryEmpty(n.fs, dirPath)
                      THEN removed(RemoveDirectory(n.fs, dirPath, env), success /\ n.ok)
                      ELSE removeEntries(n.fs, basePath, structure, keys, i + 1, order, env, success /\ n.ok)
    IN  IF i > Len(keys) THEN Res(f, success)
        ELSE IF ~IsDirectory(f, dirPath)
             THEN removeEntries(f, basePath, structure, keys, i + 1, order, env, success)
        ELSE emptied(IF structure[keys[i]].nil THEN Res(f, TRUE)
                     ELSE RemoveDirectoryTree(f, dirPath, structure[keys[i]].sub, order, env))

RemoveDirectoryTree(f, basePath, structure, order, env) ==
    IF ~IsDirectory(f, basePath) THEN Res(f, FALSE)
    ELSE removeEntries(f, basePath, structure, keysIn(structure, order), 1, order, env, TRUE)

(***************************************************************************)
(* Batch removals (Removing.go): the entries directly inside a directory   *)
(* are visited in the order of os.ReadDir; the result is the success flag  *)
(* and the count of removals.                                              *)
(***************************************************************************)
CRes(f, b, n) == [fs |-> f, ok |-> b, count |-> n]

\* a variant that returns at the first removal that fails
RECURSIVE emptyFilesLoop_StopsAtFailure(_, _, _, _, _, _, _)
emptyFilesLoop_StopsAtFailure(f, dirPath, entries, i, env, success, count) ==
    LET filePath == Join(dirPath, <<entries[i].name>>)
        removed(r) == IF ~r.ok THEN CRes(r.fs, FALSE, count)
                      ELSE emptyFilesLoop_StopsAtFailure(r.fs, dirPath, entries, i + 1, env, success, count + 1)
    IN  IF i > Len(entries) THEN CRes(f, success, count)
        ELSE IF entries[i].isDir
             THEN emptyFilesLoop_StopsAtFailure(f, dirPath, entries, i + 1, env, success, count)
        ELSE IF IsFileEmpty(f, filePath) THEN removed(RemoveFile(f, filePath, env))
        ELSE emptyFilesLoop_StopsAtFailure(f, dirPath, entries, i + 1, env, success, count)

\* the loop of RemoveEmptyFiles; info.Size() == 0 is IsFileEmpty of the entry
RECURSIVE emptyFilesLoop(_, _, _, _, _, _, _)
emptyFilesLoop(f, dirPath, entries, i, env, success, count) ==
    LET filePath == Join(dirPath, <<entries[i].name>>)
        removed(r) == emptyFilesLoop(r.fs, dirPath, entries, i + 1, env, success /\ r.ok,
                                     IF r.ok THEN count + 1 ELSE count)
    IN  IF i > Len(entries) THEN CRes(f, success, count)
        ELSE IF entries[i].isDir THEN emptyFilesLoop(f, dirPath, entries, i + 1, env, success, count)
        ELSE IF IsFileEmpty(f, filePath) THEN removed(RemoveFile(f, filePath, env))
        ELSE emptyFilesLoop(f, dirPath, entries, i + 1, env, success, count)

RemoveEmptyFiles(f, dirPath, env) ==
    IF ~IsDirectory(f, dirPath) THEN CRes(f, FALSE, 0)
    ELSE emptyFilesLoop(f, dirPath, osReadDir(f, dirPath), 1, env, TRUE, 0)

\* the loop of RemoveEmptyDirectories
RECURSIVE emptyDirectoriesLoop(_, _, _, _, _, _, _)
emptyDirectoriesLoop(f, dirPath, entries, i, env, success, count) ==
    LET subDirPath == Join(dirPath, <<entries[i].name>>)
        removed(r) == emptyDirectoriesLoop(r.fs, dirPath, entries, i + 1, env, success /\ r.ok,
                                           IF r.ok THEN count + 1 ELSE count)
    IN  IF i > Len(entries) THEN CRes(f, success, count)
        ELSE IF ~entries[i].isDir THEN emptyDirectoriesLoop(f, dirPath, entries, i + 1, env, success, count)
        ELSE IF IsDirectoryEmpty(f, subDirPath) THEN removed(RemoveDirectory(f, subDirPath, env))
        ELSE emptyDirectoriesLoop(f, dirPath, entries, i + 1, env, success, count)

RemoveEmptyDirectories(f, dirPath, env) ==
    IF ~IsDirectory(f, dirPath) THEN CRes(f, FALSE, 0)
    ELSE emptyDirectoriesLoop(f, dirPath, osReadDir(f, dirPath), 1, env, TRUE, 0)

\* filepath.Match on the patterns of the model: "[" is malformed, "*" matches
\* every name, "*.bak" the names that end in .bak, and a pattern without
\* metacharacters matches the name equal to it
Match(pattern, name) ==
    IF pattern = "[" THEN [match |-> FALSE, err |-> TRUE]
    ELSE IF pattern = "*" THEN [match |-> TRUE, err |-> FALSE]
    ELSE IF pattern = "*.bak"
         THEN [match |-> \E i \in 1..Len(NameOrder) : name = NameOrder[i] \o ".bak", err |-> FALSE]
    ELSE [match |-> name = pattern, err |-> FALSE]

\* the loop of RemoveByPattern
RECURSIVE byPatternLoop(_, _, _, _, _, _, _, _)
byPatternLoop(f, dirPath, pattern, entries, i, env, success, count) ==
    LET filePath == Join(dirPath, <<entries[i].name>>)
        removed(r) == byPatternLoop(r.fs, dirPath, pattern, entries, i + 1, env, success /\ r.ok,
                                    IF r.ok THEN count + 1 ELSE count)
        matched(m) == IF m.err THEN byPatternLoop(f, dirPath, pattern, entries, i + 1, env, FALSE, count)
                      ELSE IF m.match THEN removed(RemoveFile(f, filePath, env))
                      ELSE byPatternLoop(f, dirPath, pattern, entries, i + 1, env, success, count)
    IN  IF i > Len(entries) THEN CRes(f, success, count)
        ELSE IF entries[i].isDir THEN byPatternLoop(f, dirPath, pattern, entries, i + 1, env, success, count)
        ELSE matched(Match(pattern, entries[i].name))

RemoveByPattern(f, dirPath, pattern, env) ==
    IF ~IsDirectory(f, dirPath) THEN CRes(f, FALSE, 0)
    ELSE byPatternLoop(f, dirPath, pattern, osReadDir(f, dirPath), 1, env, TRUE, 0)

(***************************************************************************)
(* SplitFile and AssembleFiles (file-Reader_writer.go).  A chunk size is   *)
(* an int64: [huge |-> FALSE, n |-> c] is the value c, and                 *)
(* [huge |-> TRUE, n |-> k] is the value math.MaxInt64 - k.                *)
(***************************************************************************)
SRes(f, b, parts, panicked) == [fs |-> f, ok |-> b, parts |-> parts, panicked |-> panicked]

\* the exact quotient, rounded up, of a small size by a chunk size
CeilDiv(fileSize, chunk) ==
    IF chunk.huge THEN (IF fileSize = 0 THEN 0 ELSE 1)
    ELSE (fileSize + chunk.n - 1) \div chunk.n

\* (fileSize + chunkSize - 1) / chunkSize in int64 arithmetic: the sum wraps
\* around and the division truncates towards zero.  With the chunk size
\* MaxInt64 - k and t = fileSize - k - 1 > 0, the sum is MinInt64 + t - 1,
\* whose quotient by the chunk size is -1 when t <= k + 2, and 0 otherwise.
numPartsOf(fileSize, chunk) ==
    IF ~chunk.huge THEN (fileSize + chunk.n - 1) \div chunk.n
    ELSE IF fileSize - chunk.n - 1 <= 0 THEN (IF fileSize = 0 THEN 0 ELSE 1)
    ELSE IF fileSize - chunk.n - 1 <= chunk.n + 2 THEN -1
    ELSE 0

\* filepath.Ext of the names of the model
Ext(name) ==
    IF \E i \in 1..Len(NameOrder) : name = NameOrder[i] \o ".bak" THEN ".bak" ELSE ""

TrimExt(name) ==
    IF Ext(name) = "" THEN name
    ELSE CHOOSE n \in {NameOrder[i] : i \in 1..Len(NameOrder)} : n \o ".bak" = name

PartPath(src, i) ==
    Join(Dir(src), <<TrimExt(Base(src)) \o "_" \o ToString(i) \o Ext(Base(src))>>)

\* the bytes one part receives: up to chunkSize of what is left to read
ChunkEnd(offset, chunk, fileSize) ==
    IF chunk.huge \/ offset + chunk.n > fileSize THEN fileSize ELSE offset + chunk.n

\* the loop that writes the parts; offset is the read position in the source
RECURSIVE splitLoop(_, _, _, _, _, _, _, _)
splitLoop(f, data, chunk, splitFiles, i, numParts, offset, env) ==
    LET upTo == ChunkEnd(offset, chunk, Len(data))
        written(w) == IF ~w.ok THEN SRes(w.fs, FALSE, SubSeq(splitFiles, 1, i), FALSE)
                      ELSE splitLoop(w.fs, data, chunk, splitFiles, i + 1, numParts, upTo, env)
        created(c) == IF ~c.ok THEN SRes(c.fs, FALSE, SubSeq(splitFiles, 1, i - 1), FALSE)
                      ELSE written(osWrite(c.fs, splitFiles[i], FileNode(SubSeq(data, offset + 1, upTo)), env))
    IN  IF i > numParts THEN SRes(f, TRUE, splitFiles, FALSE)
        ELSE created(osCreate(f, splitFiles[i], env))

\* make([]string, numParts) panics for a negative numParts
SplitFile(f, src, chunk, env) ==
    LET split(numParts) ==
            IF numParts = 0 THEN SRes(f, FALSE, <<>>, FALSE)
            ELSE IF numParts < 0 THEN SRes(f, FALSE, <<>>, TRUE)
            ELSE splitLoop(f, f[src].data, chunk, [i \in 1..numParts |-> PartPath(src, i)],
                           1, numParts, 0, env)
    IN  IF ~IsFile(f, src) THEN SRes(f, FALSE, <<>>, FALSE)
        ELSE split(numPartsOf(Len(f[src].data), chunk))

\* the loop that appends the source files to the destination
RECURSIVE combineLoop(_, _, _, _, _)
combineLoop(f, srcFiles, i, dst, env) ==
    IF i > Len(srcFiles) THEN Res(f, TRUE)
    ELSE IF env.full /\ f[srcFiles[i]].data # <<>> THEN Res(f, FALSE)
    ELSE combineLoop([f EXCEPT ![dst].data = @ \o f[srcFiles[i]].data], srcFiles, i + 1, dst, env)

AssembleFiles(f, srcFiles, dst, env) ==
    LET created(c) == IF ~c.ok THEN Res(c.fs, FALSE)
                      ELSE combineLoop(c.fs, srcFiles, 1, dst, env)
        ensured(m) == IF ~m.ok THEN Res(m.fs, FALSE)
                      ELSE created(osCreate(m.fs, dst, env))
    IN  IF \E i \in 1..Len(srcFiles) : ~IsFile(f, srcFiles[i]) THEN Res(f, FALSE)
        ELSE ensured(IF IsDirectory(f, Dir(dst)) THEN Res(f, TRUE)
                     ELSE osMkdirAll(f, Dir(dst), env))

(***************************************************************************)
(* Metadata.go counts and the category facades of Export.go.               *)
(***************************************************************************)
GetFolderFileCount(f, path) ==
    IF ~IsDirectory(f, path) THEN 0
    ELSE Cardinality({i \in 1..Len(osReadDir(f, path)) : ~osReadDir(f, path)[i].isDir})

GetFolderChildCount(f, path) ==
    IF ~IsDirectory(f, path) THEN 0
    ELSE Len(osReadDir(f, path))

Metadata_GetFolderFileCount(f, path) == GetFolderChildCount(f, path)

DirFunctions_DeleteDirectory(f, path, env) == RemoveDirectory(f, path, env)

DirFunctions_MoveDirectory(f, src, dst, env) == MoveDirectory(f, src, dst, env)

FileFunctions_MoveFile(f, src, dst, env) == MoveFile(f, src, dst, env)

(***************************************************************************)
(* The initial file systems: the root holds a source entry "s", a          *)
(* destination entry "d" and a stale backup "d.bak", each absent, a file   *)
(* or a directory tree.  Files below "s" hold byte 1, below "d" byte 2,    *)
(* below "d.bak" byte 3; an entry "x" may also be a zero-byte file.        *)
(***************************************************************************)
At(p, node) == [q \in {p} |-> node]

\* the contents c of a directory, placed below a directory at path p
Graft(p, c) == Merge(At(p, DirNode), [q \in {Join(p, r) : r \in DOMAIN c} |-> c[SubSeq(q, Len(p) + 1, Len(q))]])

XOpts(b, withEmpty) ==
    {EmptyFn, At(<<"x">>, FileNode(<<b>>))}
        \cup (IF withEmpty THEN {At(<<"x">>, FileNode(<<>>))} ELSE {})

RECURSIVE DirContents(_, _, _)
DirContents(n, b, withEmpty) ==
    LET aOpts == {EmptyFn, At(<<"a">>, FileNode(<<b>>))}
                    \cup (IF n = 0 THEN {}
                          ELSE {Graft(<<"a">>, c) : c \in DirContents(n - 1, b, withEmpty)})
    IN  {Merge(x, a) : x \in XOpts(b, withEmpty), a \in aOpts}

Shapes(top, n, b, withEmpty) ==
    {EmptyFn, At(<<top>>, FileNode(<<b>>))}
        \cup {Graft(<<top>>, c) : c \in DirContents(n, b, withEmpty)}

BakShapes(top) ==
    {EmptyFn, At(<<top>>, FileNode(<<3>>)), Graft(<<top>>, At(<<"x">>, FileNode(<<3>>)))}

Root == At(<<>>, DirNode)

NoCall == [name |-> "init", src |-> NoPath, dst |-> NoPath, env |-> NoFault, ok |-> FALSE, backup |-> NoPath]

Called(name, src, dst, env, ok, backup) ==
    [name |-> name, src |-> src, dst |-> dst, env |-> env, ok |-> ok, backup |-> backup]

InitCommon ==
    /\ pre = fs
    /\ call = NoCall

(***************************************************************************)
(* Specification of the plain moves: MoveFile and MoveDirectory.           *)
(***************************************************************************)
MoveSrcs == {<<"s">>, <<"s", "a">>, <<"m">>}

MoveDsts == {<<"d">>, <<"d", "a">>, <<"m", "n">>, <<"s">>, <<"s", "a">>}

InitMove ==
    /\ \E s \in Shapes("s", MaxDepth, 1, FALSE), d \in Shapes("d", MaxDepth, 2, FALSE) :
          fs = Merge(Root, Merge(s, d))
    /\ InitCommon

DoMoveFile ==
    /\ call.name = "init"
    /\ \E src \in MoveSrcs, dst \in MoveDsts, env \in Envs :
           \E r \in {MoveFile(fs, src, dst, env)} :
                /\ fs' = r.fs
                /\ pre' = fs
                /\ call' = Called("MoveFile", src, dst, env, r.ok, NoPath)

DoMoveDirectory ==
    /\ call.name = "init"
    /\ \E src \in MoveSrcs, dst \in MoveDsts, env \in Envs :
           \E r \in {MoveDirectory(fs, src, dst, env)} :
                /\ fs' = r.fs
                /\ pre' = fs
                /\ call' = Called("MoveDirectory", src, dst, env, r.ok, NoPath)

NextMove == DoMoveFile \/ DoMoveDirectory

SpecMove == InitMove /\ [][NextMove]_vars

WellFormedInv == WellFormed(fs)

(***************************************************************************)
(* Claims about MoveFile.                                                  *)
(***************************************************************************)
MovedTo(src, dst) ==
    /\ call.ok
    /\ IsFile(fs, dst) /\ fs[dst] = pre[src]
    /\ ~PathExists(fs, src)

LeftAt(src, dst) ==
    /\ ~call.ok
    /\ IsFile(fs, src) /\ fs[src] = pre[src]
    /\ ~PathExists(fs, dst)

\* C2: when MoveFile(f, d) returns, for a file f and any d, either it returned
\* true, f's bytes are at d and f is gone, or it returned false, f is untouched
\* and nothing exists at d.
C2_MoveFileTwoOutcomes ==
    (call.name = "MoveFile" /\ IsFile(pre, call.src)) =>
        (MovedTo(call.src, call.dst) \/ LeftAt(call.src, call.dst))

\* the file system MoveFile hands to os.Rename: the destination's parent
\* ensured and a file at the destination removed
MovePrepared ==
    LET ensured == IF IsDirectory(pre, Dir(call.dst)) THEN Res(pre, TRUE)
                   ELSE CreateDirectory(pre, Dir(call.dst), call.env)
    IN  IF ensured.ok /\ IsFile(ensured.fs, call.dst)
        THEN RemoveFile(ensured.fs, call.dst, call.env)
        ELSE ensured

\* the rename failed, the copy to the destination succeeded and the source
\* could not be deleted
DeleteFailedAfterCopy ==
    /\ call.name = "MoveFile"
    /\ IsFile(pre, call.src)
    /\ MovePrepared.ok
    /\ osRenameFails(MovePrepared.fs, call.src, call.dst, call.env)
    /\ CopyFile(MovePrepared.fs, call.src, call.dst, call.env).ok
    /\ ~DeleteFile(CopyFile(MovePrepared.fs, call.src, call.dst, call.env).fs,
                   call.src, call.env).ok

\* the copy at the destination can be deleted again
CopyRemovable ==
    DeleteFile(CopyFile(MovePrepared.fs, call.src, call.dst, call.env).fs,
               call.dst, call.env).ok

\* C25 (as claimed): when the rename fails, the copy succeeds and the source
\* cannot be deleted, MoveFile returns false and the file's data is at the
\* source and at the destination.
C25_DuplicateLeft ==
    DeleteFailedAfterCopy =>
        /\ ~call.ok
        /\ IsFile(fs, call.src) /\ fs[call.src] = pre[call.src]
        /\ IsFile(fs, call.dst) /\ fs[call.dst] = pre[call.src]

\* C25 (amended): when the rename fails, the copy succeeds and the source
\* cannot be deleted, MoveFile returns false with the source untouched, and
\* the copy is deleted from the destination again; the data stays at both
\* places only when that deletion fails too.
C25_CopyRemoved ==
    DeleteFailedAfterCopy =>
        /\ ~call.ok
        /\ IsFile(fs, call.src) /\ fs[call.src] = pre[call.src]
        /\ IF CopyRemovable THEN ~PathExists(fs, call.dst)
           ELSE IsFile(fs, call.dst) /\ fs[call.dst] = pre[call.src]

\* the write-protected file s was copied to d, could not be deleted, and d is
\* gone again
C25_Witness ==
    /\ DeleteFailedAfterCopy
    /\ call.src = <<"s">> /\ call.dst = <<"d">>
    /\ ~call.ok
    /\ fs[<<"s">>] = pre[<<"s">>]
    /\ ~PathExists(fs, <<"d">>)

\* C28: after any MoveFile(src, dst), successful or not and also for
\* dst = src, the original bytes of src are at src or at dst.
C28_OnlyCopySurvives ==
    (call.name = "MoveFile" /\ IsFile(pre, call.src)) =>
        \/ IsFile(fs, call.src) /\ fs[call.src] = pre[call.src]
        \/ IsFile(fs, call.dst) /\ fs[call.dst] = pre[call.src]

(***************************************************************************)
(* Claims about MoveDirectory.                                             *)
(***************************************************************************)
\* the tree of src placed below dst: the same relative paths, src's nodes
Placed(f, src, dst) ==
    [q \in {Join(dst, SubSeq(m, Len(src) + 1, Len(m))) : m \in Under(f, src) \ {src}}
        |-> f[Join(src, SubSeq(q, Len(dst) + 1, Len(q)))]]

\* f with src removed and src's tree laid over dst's (src wins)
Overlaid(f, src, dst) ==
    Merge(Placed(f, src, dst), Restrict(f, (DOMAIN f) \ Under(f, src)))

\* C3: after MoveDirectory(src, dst) returns true with dst an existing
\* directory, src is gone and dst's tree is the old dst tree overlaid by the
\* old src tree (src wins, directories merge, dst-only entries unchanged).
C3_MergeOverlay ==
    (call.name = "MoveDirectory" /\ call.ok /\ IsDirectory(pre, call.dst)) =>
        (~PathExists(fs, call.src) /\ fs = Overlaid(pre, call.src, call.dst))

\* C12: MoveDirectory(src, dst) with dst an existing file returns false and
\* changes nothing: src's tree, the file at dst and every other path are as
\* before the call.
C12_MoveDirectoryOntoFile ==
    (call.name = "MoveDirectory" /\ IsFile(pre, call.dst)) =>
        (~call.ok /\ fs = pre)

\* a directory with entries was moved onto a file and the call declined
C12_Witness ==
    /\ call.name = "MoveDirectory"
    /\ IsDirectory(pre, call.src) /\ Entries(pre, call.src) # {}
    /\ IsFile(pre, call.dst)
    /\ ~call.ok /\ fs = pre

(***************************************************************************)
(* Specification of the backup operations: MoveWithBackup and              *)
(* DeleteWithBackup, from file systems that may hold a stale "d.bak".  The *)
(* source of a move may be the destination itself or its stale backup      *)
(* (moving a backup back into place).                                      *)
(***************************************************************************)
BackupSrcs == {<<"s">>, <<"m">>, <<"d">>, <<"d.bak">>}

BackupDsts == {<<"d">>}

BackupTargets == {<<"d">>, <<"m">>}

InitBackup ==
    /\ \E s \in Shapes("s", MaxDepth, 1, FALSE), d \in Shapes("d", MaxDepth, 2, FALSE),
          b \in BakShapes("d.bak") :
          fs = Merge(Root, Merge(s, Merge(d, b)))
    /\ InitCommon

DoMoveWithBackup ==
    /\ call.name = "init"
    /\ \E src \in BackupSrcs, dst \in BackupDsts, env \in Envs :
           \E r \in {MoveWithBackup(fs, src, dst, env)} :
                /\ fs' = r.fs
                /\ pre' = fs
                /\ call' = Called("MoveWithBackup", src, dst, env, r.ok, r.backup)

DoDeleteWithBackup ==
    /\ call.name = "init"
    /\ \E path \in BackupTargets, env \in Envs :
           \E r \in {DeleteWithBackup(fs, path, env)} :
                /\ fs' = r.fs
                /\ pre' = fs
                /\ call' = Called("DeleteWithBackup", path, path, env, r.ok, r.backup)

NextBackup == DoMoveWithBackup \/ DoDeleteWithBackup

SpecBackup == InitBackup /\ [][NextBackup]_vars

\* MoveDirectory was called on a directory with nothing at the destination
MovesToNewPath ==
    /\ call.name = "MoveDirectory"
    /\ IsDirectory(pre, call.src)
    /\ ~PathExists(pre, call.dst)

\* the file system after the atomic rename of src to dst, the parent of dst
\* created first when it is missing
AtomicallyRenamed ==
    osRename(IF IsDirectory(pre, Dir(call.dst)) THEN pre
             ELSE CreateDirectory(pre, Dir(call.dst), NoFault).fs,
             call.src, call.dst, NoFault)

\* C27: for MoveDirectory(src, dst) with dst not existing, when every
\* os.Rename fails and the fallback succeeds, the final state is the one the
\* atomic rename produces: src's whole tree, empty subdirectories included,
\* is at dst with the same contents, src is gone, and true is returned.
C27_FallbackSameAsRename ==
    (MovesToNewPath /\ call.env.xdev /\ call.ok) =>
        /\ AtomicallyRenamed.ok
        /\ fs = AtomicallyRenamed.fs
        /\ ~PathExists(fs, call.src)
        /\ IsDirectory(fs, call.dst)
        /\ SubTree(fs, call.dst) = SubTree(pre, call.src)

\* without a working rename, s with a file and an empty subdirectory arrived
\* at the new path d
C27_Witness ==
    /\ MovesToNewPath /\ call.env.xdev /\ call.ok
    /\ call.src = <<"s">> /\ call.dst = <<"d">>
    /\ IsFile(pre, <<"s", "x">>)
    /\ IsDirectory(pre, <<"s", "a">>) /\ IsDirectoryEmpty(pre, <<"s", "a">>)
    /\ fs[<<"d", "x">>] = pre[<<"s", "x">>]
    /\ IsDirectory(fs, <<"d", "a">>)
    /\ ~PathExists(fs, <<"s">>)

\* C29: after any MoveDirectory(src, dst), successful or not and also for
\* dst = src, every file that was below src is, with its content, at its
\* source path or at the same relative path below dst.
C29_EveryFileSurvives ==
    (call.name = "MoveDirectory" /\ IsDirectory(pre, call.src)) =>
        \A r \in RelPaths(pre, call.src) :
            IsFile(pre, Join(call.src, r)) =>
                \/ IsFile(fs, Join(call.src, r)) /\ fs[Join(call.src, r)] = pre[Join(call.src, r)]
                \/ IsFile(fs, Join(call.dst, r)) /\ fs[Join(call.dst, r)] = pre[Join(call.src, r)]

(***************************************************************************)
(* Claims about the backup operations.                                     *)
(***************************************************************************)
\* the entry at p in f is the entry at q in g: same node, same tree below
SameEntry(f, p, g, q) ==
    /\ p \in DOMAIN f /\ q \in DOMAIN g
    /\ f[p] = g[q]
    /\ SubTree(f, p) = SubTree(g, q)

\* the destination existed, was renamed aside, and the move-in step failed
MoveInFailed ==
    /\ call.name = "MoveWithBackup"
    /\ PathExists(pre, call.dst)
    /\ \E b \in {backupDestination(pre, call.dst, call.env)} :
           /\ b.ok
           /\ SameEntry(b.fs, Bak(call.dst), pre, call.dst)
           /\ ~moveIn(b.fs, call.src, call.dst, call.env).ok

\* C5: whenever the move-in step of MoveWithBackup fails after dst was renamed
\* aside to dst.bak (whatever the cause, a missing source included), the call
\* reports failure and dst holds exactly the original destination content.
C5_RestoreOnFailure ==
    MoveInFailed => (~call.ok /\ SameEntry(fs, call.dst, pre, call.dst))

\* C9: a pre-existing <target>.bak is removed before the new backup is made:
\* after a successful MoveWithBackup onto an existing dst, or a successful
\* DeleteWithBackup, <target>.bak is exactly the entry the target was at call
\* time, with nothing of the stale backup in it.
C9_BackupReplacesStale ==
    /\ (call.name = "MoveWithBackup" /\ call.ok /\ PathExists(pre, call.dst)) =>
           SameEntry(fs, Bak(call.dst), pre, call.dst)
    /\ (call.name = "DeleteWithBackup" /\ call.ok) =>
           SameEntry(fs, Bak(call.dst), pre, call.dst)

\* a successful backup of a directory over a stale backup directory that held
\* an entry the target does not have
C9_Witness ==
    /\ call.name \in {"MoveWithBackup", "DeleteWithBackup"}
    /\ call.ok
    /\ IsDirectory(pre, call.dst)
    /\ IsDirectory(pre, Bak(call.dst))
    /\ \E r \in DOMAIN SubTree(pre, Bak(call.dst)) : r \notin DOMAIN SubTree(pre, call.dst)
    /\ SameEntry(fs, Bak(call.dst), pre, call.dst)

\* C10: when MoveWithBackup(src, dst) returns true, src is gone, dst is the
\* entry src was, and the returned backup path is dst.bak holding the entry
\* dst was if dst existed, or empty (and dst.bak is left as it was) if not.
C10_MoveWithBackupSuccess ==
    (call.name = "MoveWithBackup" /\ call.ok) =>
        /\ ~PathExists(fs, call.src)
        /\ SameEntry(fs, call.dst, pre, call.src)
        /\ PathExists(pre, call.dst) =>
               (call.backup = Bak(call.dst) /\ SameEntry(fs, Bak(call.dst), pre, call.dst))
        /\ ~PathExists(pre, call.dst) =>
               /\ call.backup = NoPath
               /\ PathExists(fs, Bak(call.dst)) = PathExists(pre, Bak(call.dst))
               /\ PathExists(pre, Bak(call.dst)) => SameEntry(fs, Bak(call.dst), pre, Bak(call.dst))

\* a directory moved over an existing directory, which is now the backup
C10_Witness ==
    /\ call.name = "MoveWithBackup" /\ call.ok
    /\ IsDirectory(pre, call.src) /\ SubTree(pre, call.src) # EmptyFn
    /\ IsDirectory(pre, call.dst) /\ SubTree(pre, call.dst) # EmptyFn
    /\ call.backup = Bak(call.dst)
    /\ SameEntry(fs, call.dst, pre, call.src)

\* a file moved to a path that did not exist: no backup
C10_WitnessNoBackup ==
    /\ call.name = "MoveWithBackup" /\ call.ok
    /\ ~PathExists(pre, call.dst)
    /\ call.backup = NoPath

\* C11: DeleteWithBackup(path) removes path only after a complete copy of it
\* exists at path.bak: a true return means path is gone and path.bak is the
\* entry path was; whenever path.bak is not a complete copy on return, the
\* call returned false and path is exactly as it was.
C11_DeleteAfterCompleteBackup ==
    (call.name = "DeleteWithBackup" /\ PathExists(pre, call.src)) =>
        /\ call.ok => /\ ~PathExists(fs, call.src)
                      /\ call.backup = Bak(call.src)
                      /\ SameEntry(fs, Bak(call.src), pre, call.src)
        /\ ~SameEntry(fs, Bak(call.src), pre, call.src) =>
               (~call.ok /\ SameEntry(fs, call.src, pre, call.src))

\* the copy of a directory failed at one of its files: a partial backup
\* directory exists, the directory itself is untouched
C11_Witness ==
    /\ call.name = "DeleteWithBackup"
    /\ IsDirectory(pre, call.src)
    /\ \E q \in Entries(pre, call.src) : IsFile(pre, q)
    /\ ~PathExists(pre, Bak(call.src))
    /\ IsDirectory(fs, Bak(call.src))
    /\ ~SameEntry(fs, Bak(call.src), pre, call.src)
    /\ ~call.ok
    /\ SameEntry(fs, call.src, pre, call.src)

(***************************************************************************)
(* Specification of the guarded operations: the *IfExists variants,        *)
(* DeleteDirectoryIfEmpty and RemoveDirectory.                             *)
(***************************************************************************)
GuardSrcs == {<<"s">>, <<"s", "a">>, <<"s", "x">>, <<"m">>, <<"m", "n">>}

GuardDsts == {<<"d">>, <<"d", "x">>, <<"e", "n">>}

InitGuard ==
    /\ \E s \in Shapes("s", MaxDepth, 1, TRUE), d \in Shapes("d", 0, 2, FALSE) :
          fs = Merge(Root, Merge(s, d))
    /\ InitCommon

DoMoveFileIfExists ==
    /\ call.name = "init"
    /\ \E src \in GuardSrcs, dst \in GuardDsts, env \in Envs :
           \E r \in {MoveFileIfExists(fs, src, dst, env)} :
                /\ fs' = r.fs
                /\ pre' = fs
                /\ call' = Called("MoveFileIfExists", src, dst, env, r.ok, NoPath)

DoMoveDirectoryIfExists ==
    /\ call.name = "init"
    /\ \E src \in GuardSrcs, dst \in GuardDsts, env \in Envs :
           \E r \in {MoveDirectoryIfExists(fs, src, dst, env)} :
                /\ fs' = r.fs
                /\ pre' = fs
                /\ call' = Called("MoveDirectoryIfExists", src, dst, env, r.ok, NoPath)

DoDeleteFileIfExists ==
    /\ call.name = "init"
    /\ \E path \in GuardSrcs, env \in Envs :
           \E r \in {DeleteFileIfExists(fs, path, env)} :
                /\ fs' = r.fs
                /\ pre' = fs
                /\ call' = Called("DeleteFileIfExists", path, path, env, r.ok, NoPath)

DoDeleteDirectoryIfExists ==
    /\ call.name = "init"
    /\ \E path \in GuardSrcs, env \in Envs :
           \E r \in {DeleteDirectoryIfExists(fs, path, env)} :
                /\ fs' = r.fs
                /\ pre' = fs
                /\ call' = Called("DeleteDirectoryIfExists", path, path, env, r.ok, NoPath)

DoDeleteDirectoryIfEmpty ==
    /\ call.name = "init"
    /\ \E path \in GuardSrcs, env \in Envs :
           \E r \in {DeleteDirectoryIfEmpty(fs, path, env)} :
                /\ fs' = r.fs
                /\ pre' = fs
                /\ call' = Called("DeleteDirectoryIfEmpty", path, path, env, r.ok, NoPath)

DoRemoveDirectory ==
    /\ call.name = "init"
    /\ \E path \in GuardSrcs, env \in Envs :
           \E r \in {RemoveDirectory(fs, path, env)} :
                /\ fs' = r.fs
                /\ pre' = fs
                /\ call' = Called("RemoveDirectory", path, path, env, r.ok, NoPath)

DoMoveFileIfEmpty ==
    /\ call.name = "init"
    /\ \E src \in GuardSrcs, dst \in GuardDsts, env \in Envs :
           \E r \in {MoveFileIfEmpty(fs, src, dst, env)} :
                /\ fs' = r.fs
                /\ pre' = fs
                /\ call' = Called("MoveFileIfEmpty", src, dst, env, r.ok, NoPath)

DoMoveDirectoryIfEmpty ==
    /\ call.name = "init"
    /\ \E src \in GuardSrcs, dst \in GuardDsts, env \in Envs :
           \E r \in {MoveDirectoryIfEmpty(fs, src, dst, env)} :
                /\ fs' = r.fs
                /\ pre' = fs
                /\ call' = Called("MoveDirectoryIfEmpty", src, dst, env, r.ok, NoPath)

DoDeleteFileIfEmpty ==
    /\ call.name = "init"
    /\ \E path \in GuardSrcs, env \in Envs :
           \E r \in {DeleteFileIfEmpty(fs, path, env)} :
                /\ fs' = r.fs
                /\ pre' = fs
                /\ call' = Called("DeleteFileIfEmpty", path, path, env, r.ok, NoPath)

NextGuard ==
    \/ DoMoveFileIfExists
    \/ DoMoveDirectoryIfExists
    \/ DoDeleteFileIfExists
    \/ DoDeleteDirectoryIfExists
    \/ DoDeleteDirectoryIfEmpty
    \/ DoRemoveDirectory
    \/ DoMoveFileIfEmpty
    \/ DoMoveDirectoryIfEmpty
    \/ DoDeleteFileIfEmpty

SpecGuard == InitGuard /\ [][NextGuard]_vars

(***************************************************************************)
(* Claims about the guarded operations.                                    *)
(***************************************************************************)
IfExistsNames == {"MoveFileIfExists", "MoveDirectoryIfExists", "DeleteFileIfExists", "DeleteDirectoryIfExists"}

\* C6: the four *IfExists operations return true and leave the file system
\* unchanged (the destination's parent directory is not created either)
\* whenever the source path does not exist, for any destination.
C6_IfExistsVacuous ==
    (call.name \in IfExistsNames /\ ~PathExists(pre, call.src)) =>
        (call.ok /\ fs = pre)

\* a move of a missing source to a destination whose parent does not exist
C6_Witness ==
    /\ call.name = "MoveFileIfExists"
    /\ ~PathExists(pre, call.src)
    /\ ~PathExists(pre, Dir(call.dst))
    /\ call.ok /\ fs = pre

\* C7: DeleteDirectoryIfEmpty and RemoveDirectory, on a directory with at least
\* one entry (even a single zero-byte file), return false and leave everything
\* untouched; on a directory with no entry (that the OS lets be removed) they
\* return true and exactly that directory is gone.
C7_EmptyGuard ==
    (call.name \in {"DeleteDirectoryIfEmpty", "RemoveDirectory"} /\ IsDirectory(pre, call.src)) =>
        /\ Entries(pre, call.src) # {} => (~call.ok /\ fs = pre)
        /\ (Entries(pre, call.src) = {} /\ ~Protected(call.src, call.env)) =>
               (call.ok /\ fs = Restrict(pre, (DOMAIN pre) \ {call.src}))

\* the directory holds exactly one zero-byte file and the call declined
C7_Witness ==
    /\ call.name = "DeleteDirectoryIfEmpty"
    /\ IsDirectory(pre, call.src)
    /\ Cardinality(Entries(pre, call.src)) = 1
    /\ \A q \in Entries(pre, call.src) : IsFileEmpty(pre, q)
    /\ ~call.ok /\ fs = pre

\* the directory had no entry and is gone
C7_WitnessEmpty ==
    /\ call.name = "DeleteDirectoryIfEmpty"
    /\ IsDirectory(pre, call.src) /\ Entries(pre, call.src) = {}
    /\ call.ok /\ ~PathExists(fs, call.src)

\* the source of an *IfEmpty call is what the call requires: a file of zero
\* bytes, or a directory without entries
SourceIsEmpty ==
    IF call.name \in {"MoveFileIfEmpty", "DeleteFileIfEmpty"}
    THEN IsFileEmpty(pre, call.src)
    ELSE IsDirectoryEmpty(pre, call.src)

\* C13: the four *IfEmpty operations return false and leave the file system
\* unchanged when the source is not empty, is missing or is of the other
\* kind; with an empty source they do the move or the delete (shown here where
\* the OS lets it succeed: no fault, and for a move a free destination in an
\* existing directory).
C13_IfEmptyGuard ==
    call.name \in {"MoveFileIfEmpty", "MoveDirectoryIfEmpty", "DeleteFileIfEmpty", "DeleteDirectoryIfEmpty"} =>
        /\ ~SourceIsEmpty => (~call.ok /\ fs = pre)
        /\ (SourceIsEmpty /\ call.env = NoFault
              /\ call.name \in {"DeleteFileIfEmpty", "DeleteDirectoryIfEmpty"}) =>
               (call.ok /\ fs = Restrict(pre, (DOMAIN pre) \ {call.src}))
        /\ (SourceIsEmpty /\ call.env = NoFault
              /\ call.name \in {"MoveFileIfEmpty", "MoveDirectoryIfEmpty"}
              /\ ~PathExists(pre, call.dst) /\ IsDirectory(pre, Dir(call.dst))) =>
               (call.ok /\ ~PathExists(fs, call.src) /\ SameEntry(fs, call.dst, pre, call.src))

\* a file of one byte was not moved
C13_Witness ==
    /\ call.name = "MoveFileIfEmpty"
    /\ IsFile(pre, call.src) /\ ~IsFileEmpty(pre, call.src)
    /\ ~PathExists(pre, call.dst)
    /\ ~call.ok /\ fs = pre

\* a file of zero bytes was moved
C13_WitnessMoved ==
    /\ call.name = "MoveFileIfEmpty"
    /\ IsFileEmpty(pre, call.src)
    /\ call.ok /\ ~PathExists(fs, call.src) /\ IsFileEmpty(fs, call.dst)

(***************************************************************************)
(* Specification of extraction: ExtractArchive is called on an archive     *)
(* "z" whose records carry ordinary, escaping and absolute stored paths.   *)
(* A file "e" may exist beside the destination.                            *)
(***************************************************************************)
RecPool ==
    { Rec(<<"x">>, FileNode(<<7>>)),
      Rec(<<"a">>, DirNode),
      Rec(<<"a", "x">>, FileNode(<<7>>)),
      Rec(<<"a", "">>, FileNode(<<>>)),
      Rec(<<"a", "..", "x">>, FileNode(<<8>>)),
      Rec(<<"..", "e">>, FileNode(<<9>>)),
      Rec(<<"..", "..", "e">>, FileNode(<<9>>)),
      Rec(<<"", "e", "x">>, FileNode(<<6>>)) }

Archives == UNION {[1..k -> RecPool] : k \in 0..MaxRecs}

ExtractSrcs == {<<"z">>, <<"m">>}

ExtractDsts == {<<"o">>, <<"o", "a">>}

ExtractEnvs == {env \in Envs : ~env.xdev /\ ~env.ro}

InitExtract ==
    /\ \E recs \in Archives,
          o \in {EmptyFn, Graft(<<"o">>, At(<<"x">>, FileNode(<<2>>)))},
          e \in {EmptyFn, At(<<"e">>, FileNode(<<5>>))} :
          fs = Merge(Root, Merge(At(<<"z">>, ZipNode(recs)), Merge(o, e)))
    /\ InitCommon

DoExtractArchive ==
    /\ call.name = "init"
    /\ \E src \in ExtractSrcs, dst \in ExtractDsts, env \in ExtractEnvs :
           \E r \in {ExtractArchive(fs, src, dst, env)} :
                /\ fs' = r.fs
                /\ pre' = fs
                /\ call' = Called("ExtractArchive", src, dst, env, r.ok, NoPath)

NextExtract == DoExtractArchive

SpecExtract == InitExtract /\ [][NextExtract]_vars

(***************************************************************************)
(* Claims about extraction.                                                *)
(***************************************************************************)
\* the records of the archive the call read
CallRecs == CHOOSE r \in pre[call.src].arch : TRUE

ReadsArchive ==
    /\ call.name = "ExtractArchive"
    /\ IsFile(pre, call.src)
    /\ pre[call.src].arch # {}

\* p is neither the destination, nor below it, nor one of its ancestors
Outside(p, destPath) == ~IsPrefix(destPath, p) /\ ~IsPrefix(p, destPath)

\* the place the operating system resolves destPath/name to
Resolved(destPath, name) == Clean(destPath \o name)

IsAbsolute(name) == Len(name) > 0 /\ name[1] = ""

\* C1: ExtractArchive never creates or modifies an entry outside the
\* destination, and an archive with a record that resolves outside the
\* destination (such as ../../e) makes the call fail.
C1_ExtractStaysInside ==
    call.name = "ExtractArchive" =>
        /\ \A p \in (DOMAIN fs) \cup (DOMAIN pre) :
               Outside(p, call.dst) => (p \in DOMAIN fs /\ p \in DOMAIN pre /\ fs[p] = pre[p])
        /\ (ReadsArchive /\ \E i \in 1..Len(CallRecs) :
                               ~IsPrefix(call.dst, Resolved(call.dst, CallRecs[i].name)))
               => ~call.ok

\* a record was extracted, then ../../e was refused and "e" kept its bytes
C1_Witness ==
    /\ ReadsArchive
    /\ CallRecs = <<Rec(<<"x">>, FileNode(<<7>>)), Rec(<<"..", "..", "e">>, FileNode(<<9>>))>>
    /\ call.dst = <<"o">>
    /\ ~call.ok
    /\ IsFile(fs, <<"o", "x">>) /\ fs[<<"o", "x">>].data = <<7>>
    /\ IsFile(pre, <<"e">>) /\ fs[<<"e">>] = pre[<<"e">>]

\* C8 (as claimed): an archive with a record whose stored path is absolute
\* makes ExtractArchive fail, and that record is never materialized.
C8_AbsoluteRejected ==
    (ReadsArchive /\ \E i \in 1..Len(CallRecs) : IsAbsolute(CallRecs[i].name)) =>
        /\ ~call.ok
        /\ \A i \in 1..Len(CallRecs) :
               IsAbsolute(CallRecs[i].name) =>
                   LET t == Resolved(call.dst, CallRecs[i].name)
                   IN  t \in DOMAIN fs => t \in DOMAIN pre

\* C8 (amended): a record whose stored path is absolute is not refused: the
\* stored path is joined below the destination, so the record passes the
\* prefix test, a successful call leaves an entry for it inside the
\* destination, and an archive of absolute records alone extracts without
\* error when no write fails.
C8_AbsoluteRebased ==
    ReadsArchive =>
        /\ \A i \in 1..Len(CallRecs) :
               IsAbsolute(CallRecs[i].name) =>
                   /\ HasDestPrefix(JoinClean(call.dst, CallRecs[i].name), call.dst)
                   /\ call.ok => IsFile(fs, Join(call.dst, Tail(CallRecs[i].name)))
        /\ ((\A i \in 1..Len(CallRecs) : IsAbsolute(CallRecs[i].name)) /\ call.env = NoFault)
               => call.ok

\* the record /e/x was written to o/e/x and the call succeeded
C8_Witness ==
    /\ ReadsArchive
    /\ CallRecs = <<Rec(<<"", "e", "x">>, FileNode(<<6>>))>>
    /\ call.dst = <<"o">>
    /\ call.ok
    /\ ~PathExists(pre, <<"o", "e", "x">>)
    /\ IsFile(fs, <<"o", "e", "x">>) /\ fs[<<"o", "e", "x">>].data = <<6>>

\* the file system once the destination directory of the call is ensured
DestEnsured ==
    IF IsDirectory(pre, call.dst) THEN pre ELSE osMkdirAll(pre, call.dst, call.env).fs

\* the file system after the records i..k were extracted one after the other
RECURSIVE ExtractedUpTo(_, _, _)
ExtractedUpTo(f, i, k) ==
    IF i > k THEN f
    ELSE ExtractedUpTo(extractZipFile(f, CallRecs[i], call.dst, call.env).fs, i + 1, k)

\* the extraction of record i fails when the records before it were extracted
RecordFails(i) ==
    ~extractZipFile(ExtractedUpTo(DestEnsured, 1, i - 1), CallRecs[i], call.dst, call.env).ok

\* the records before i were all extracted and record i fails
FirstFailing(i) ==
    /\ RecordFails(i)
    /\ \A j \in 1..(i - 1) : ~RecordFails(j)

\* C24: ExtractArchive stops at the first record whose extraction fails: it
\* returns an error, and the file system is the one that record left, so no
\* record after it in archive order is materialized.
C24_StopsAtFirstFailure ==
    (ReadsArchive /\ IsDirectory(DestEnsured, call.dst)) =>
        /\ call.ok <=> (\A i \in 1..Len(CallRecs) : ~RecordFails(i))
        /\ \A i \in 1..Len(CallRecs) :
               FirstFailing(i) => fs = ExtractedUpTo(DestEnsured, 1, i)

\* ../e was refused and the record x after it was not written
C24_Witness ==
    /\ ReadsArchive
    /\ CallRecs = <<Rec(<<"..", "e">>, FileNode(<<9>>)), Rec(<<"x">>, FileNode(<<7>>))>>
    /\ call.dst = <<"o">>
    /\ ~call.ok
    /\ ~PathExists(fs, <<"o", "x">>)

(***************************************************************************)
(* Specification of compression: a tree "s" is compressed, or compressed   *)
(* and extracted again into "o".                                           *)
(***************************************************************************)
ArchiveSrcs == {<<"s">>, <<"s", "a">>, <<"m">>}

ArchiveTemps == {<<"z">>, <<"s", "z">>, <<"s", "x">>, <<"n", "z">>}

ArchiveFinals == {<<"o">>, <<"o", "a">>}

CalledTemp(name, src, temp, dst, env, ok) ==
    [name |-> name, src |-> src, temp |-> temp, dst |-> dst, env |-> env, ok |-> ok, backup |-> NoPath]

InitArchive ==
    /\ \E s \in Shapes("s", MaxDepth, 1, TRUE),
          o \in {EmptyFn, At(<<"o">>, DirNode), Graft(<<"o">>, At(<<"x">>, FileNode(<<2>>)))} :
          fs = Merge(Root, Merge(s, o))
    /\ InitCommon

DoCompressDirectory ==
    /\ call.name = "init"
    /\ \E src \in ArchiveSrcs, dst \in ArchiveTemps, env \in ExtractEnvs, surfaced \in BOOLEAN :
           \E r \in {CompressDirectory(fs, src, dst, env, surfaced)} :
                /\ fs' = r.fs
                /\ pre' = fs
                /\ call' = Called("CompressDirectory", src, dst, env, r.ok, NoPath)

DoCompressAndExtract ==
    /\ call.name = "init"
    /\ \E src \in ArchiveSrcs, temp \in ArchiveTemps, dst \in ArchiveFinals,
       env \in ExtractEnvs, surfaced \in BOOLEAN :
           \E r \in {CompressAndExtract(fs, src, temp, dst, env, surfaced)} :
                /\ fs' = r.fs
                /\ pre' = fs
                /\ call' = CalledTemp("CompressAndExtract", src, temp, dst, env, r.ok)

DoCompressAndRemove ==
    /\ call.name = "init"
    /\ \E src \in ArchiveSrcs, dst \in ArchiveTemps, env \in ExtractEnvs, surfaced \in BOOLEAN :
           \E r \in {CompressAndRemove(fs, src, dst, env, surfaced)} :
                /\ fs' = r.fs
                /\ pre' = fs
                /\ call' = Called("CompressAndRemove", src, dst, env, r.ok, NoPath)

NextArchive ==
    \/ DoCompressDirectory
    \/ DoCompressAndExtract
    \/ DoCompressAndRemove

SpecArchive == InitArchive /\ [][NextArchive]_vars

(***************************************************************************)
(* Claims about compression.                                               *)
(***************************************************************************)
\* C4: compressing a directory into an archive that is not an entry of the
\* tree, then extracting the archive into a missing or empty directory,
\* reproduces the tree there: the same relative paths, the same kinds (empty
\* directories included) and the same bytes.
C4_RoundTrip ==
    (/\ call.name = "CompressAndExtract"
     /\ IsDirectory(pre, call.src)
     /\ ~PathExists(pre, call.temp)
     /\ (~PathExists(pre, call.dst) \/ IsDirectoryEmpty(pre, call.dst))
     /\ call.env = NoFault) =>
        /\ call.ok
        /\ SubTree(fs, call.dst) = SubTree(pre, call.src)

\* a tree with an empty directory and a file came back out of the archive
C4_Witness ==
    /\ call.name = "CompressAndExtract"
    /\ call.src = <<"s">> /\ call.dst = <<"o">>
    /\ IsDirectoryEmpty(pre, <<"s", "a">>)
    /\ IsFile(pre, <<"s", "x">>) /\ ~IsFileEmpty(pre, <<"s", "x">>)
    /\ ~PathExists(pre, call.temp)
    /\ call.ok
    /\ IsDirectoryEmpty(fs, <<"o", "a">>)
    /\ fs[<<"o", "x">>] = pre[<<"s", "x">>]

\* the names of the records of the archive a call wrote
RecordNames(f, p) == UNION {{recs[i].name : i \in 1..Len(recs)} : recs \in f[p].arch}

\* a successful CompressDirectory whose archive path is inside the source
ArchiveInside ==
    /\ call.name = "CompressDirectory"
    /\ IsDirectory(pre, call.src)
    /\ call.src # call.dst /\ IsPrefix(call.src, call.dst)
    /\ ~call.env.full
    /\ call.ok

\* C14: when the archive lies inside the directory being compressed, the
\* archive has no record for itself: its records are exactly the entries under
\* the source other than the source root and the archive path.
C14_ArchiveExcluded ==
    ArchiveInside =>
        /\ RecordNames(fs, call.dst) =
               {SubSeq(q, Len(call.src) + 1, Len(q)) : q \in Under(fs, call.src) \ {call.src, call.dst}}
        /\ Base(call.dst) \notin RecordNames(fs, call.dst)

\* the archive replaced the file x of a tree that also holds a, and has the
\* single record a
C14_Witness ==
    /\ ArchiveInside
    /\ call.src = <<"s">> /\ call.dst = <<"s", "x">>
    /\ IsFile(pre, <<"s", "x">>)
    /\ Entries(pre, <<"s">>) = {<<"s", "a">>, <<"s", "x">>}
    /\ Entries(pre, <<"s", "a">>) = {}
    /\ RecordNames(fs, call.dst) = {<<"a">>}
\* C20: CompressAndRemove removes the source only after the compression
\* succeeded: when it returns nil the archive exists at the destination and
\* the source is gone, wherever the destination is; when it returns an error
\* because the compression failed, the entries of the source are as they were.
C20_RemoveAfterCompress ==
    call.name = "CompressAndRemove" =>
        /\ call.ok => (IsFile(fs, call.dst) /\ ~PathExists(fs, call.src))
        /\ ~call.ok => \A q \in Under(pre, call.src) \ {call.dst} : q \in DOMAIN fs /\ fs[q] = pre[q]

(***************************************************************************)
(* Specification of the directory trees: a structure is created under, or  *)
(* removed from, the tree "s" or the missing path "m".                     *)
(***************************************************************************)
\* the structures: "x" maps to nil, "a" to nil or to a nested structure
RECURSIVE Structures(_)
Structures(n) ==
    LET aVals == {NilVal} \cup (IF n = 0 THEN {} ELSE {MapVal(S) : S \in Structures(n - 1)})
        aOpts == {EmptyFn} \cup {[k \in {"a"} |-> v] : v \in aVals}
        xOpts == {EmptyFn, [k \in {"x"} |-> NilVal]}
    IN  {Merge(a, x) : a \in aOpts, x \in xOpts}

KeyOrders == {<<"a", "x">>, <<"x", "a">>}

TreeBases == {<<"s">>, <<"m">>}

TreeEnvs == {env \in Envs : ~env.xdev /\ ~env.full}

CalledTree(name, base, structure, order, env, ok) ==
    [name |-> name, src |-> base, dst |-> base, env |-> env, ok |-> ok, backup |-> NoPath,
     structure |-> structure, order |-> order]

InitTree ==
    /\ \E s \in Shapes("s", MaxDepth, 1, FALSE) : fs = Merge(Root, s)
    /\ InitCommon

DoCreateDirectoryTree ==
    /\ call.name = "init"
    /\ \E base \in TreeBases, S \in Structures(MaxDepth), order \in KeyOrders, env \in TreeEnvs :
           \E r \in {CreateDirectoryTree(fs, base, S, order, env)} :
                /\ fs' = r.fs
                /\ pre' = fs
                /\ call' = CalledTree("CreateDirectoryTree", base, S, order, env, r.ok)

DoRemoveDirectoryTree ==
    /\ call.name = "init"
    /\ \E base \in TreeBases, S \in Structures(MaxDepth), order \in KeyOrders, env \in TreeEnvs :
           \E r \in {RemoveDirectoryTree(fs, base, S, order, env)} :
                /\ fs' = r.fs
                /\ pre' = fs
                /\ call' = CalledTree("RemoveDirectoryTree", base, S, order, env, r.ok)

NextTree ==
    \/ DoCreateDirectoryTree
    \/ DoRemoveDirectoryTree

SpecTree == InitTree /\ [][NextTree]_vars

(***************************************************************************)
(* Claims about directory trees.                                           *)
(***************************************************************************)
\* the paths a structure names, relative to its base, at every level
RECURSIVE KeyPaths(_)
KeyPaths(S) ==
    UNION {{<<k>>} \cup {<<k>> \o r : r \in KeyPaths(S[k].sub)} : k \in DOMAIN S}

\* the paths a structure maps to nil
RECURSIVE NilPaths(_)
NilPaths(S) ==
    UNION {IF S[k].nil THEN {<<k>>} ELSE {<<k>> \o r : r \in NilPaths(S[k].sub)} : k \in DOMAIN S}

\* C15: CreateDirectoryTree returns true with the base and the directory of
\* every key of every level in place, and returns false only when some
\* directory could not be created.
C15_TreeCreated ==
    call.name = "CreateDirectoryTree" =>
        /\ call.ok => /\ IsDirectory(fs, call.src)
                      /\ \A r \in KeyPaths(call.structure) : IsDirectory(fs, Join(call.src, r))
        /\ ~call.ok => \E r \in {<<>>} \cup KeyPaths(call.structure) : ~IsDirectory(fs, Join(call.src, r))

\* C16: after RemoveDirectoryTree returned true, no directory the structure
\* maps to nil is left under the base, and every entry the structure does not
\* name and that is not inside such a directory is as it was.
C16_NilRemoved ==
    (call.name = "RemoveDirectoryTree" /\ call.ok) =>
        /\ \A r \in NilPaths(call.structure) : ~IsDirectory(fs, Join(call.src, r))
        /\ \A q \in Under(pre, call.src) :
               (\A r \in KeyPaths(call.structure) : ~IsPrefix(Join(call.src, r), q)) =>
                   (q \in DOMAIN fs /\ fs[q] = pre[q])
(***************************************************************************)
(* Specification of the entry-kind preconditions: each of the eight        *)
(* operations that require a file or a directory is called on sources of   *)
(* every kind.                                                             *)
(***************************************************************************)
KindSrcs == {<<"s">>, <<"s", "a">>, <<"m">>}

KindDsts == {<<"d">>, <<"d", "x">>, <<"e", "n">>}

InitKind ==
    /\ \E s \in Shapes("s", MaxDepth, 1, FALSE), d \in Shapes("d", 0, 2, FALSE),
          z \in {EmptyFn, At(<<"z">>, DirNode), At(<<"z">>, ZipNode(<<Rec(<<"x">>, FileNode(<<7>>))>>))} :
          fs = Merge(Root, Merge(s, Merge(d, z)))
    /\ InitCommon

DoRemoveFile ==
    /\ call.name = "init"
    /\ \E path \in KindSrcs, env \in Envs :
           \E r \in {RemoveFile(fs, path, env)} :
                /\ fs' = r.fs
                /\ pre' = fs
                /\ call' = Called("RemoveFile", path, path, env, r.ok, NoPath)

DoRemoveDirectoryRecursive ==
    /\ call.name = "init"
    /\ \E path \in KindSrcs, env \in Envs :
           \E r \in {RemoveDirectoryRecursive(fs, path, env)} :
                /\ fs' = r.fs
                /\ pre' = fs
                /\ call' = Called("RemoveDirectoryRecursive", path, path, env, r.ok, NoPath)

DoCopyFile ==
    /\ call.name = "init"
    /\ \E src \in KindSrcs, dst \in KindDsts, env \in Envs :
           \E r \in {CopyFile(fs, src, dst, env)} :
                /\ fs' = r.fs
                /\ pre' = fs
                /\ call' = Called("CopyFile", src, dst, env, r.ok, NoPath)

NextKind ==
    \/ DoRemoveFile
    \/ DoRemoveDirectory
    \/ DoRemoveDirectoryRecursive
    \/ DoCopyFile
    \/ DoMoveFile
    \/ DoMoveDirectory
    \/ DoExtractArchive
    \/ DoCompressDirectory

SpecKind == InitKind /\ [][NextKind]_vars

NeedFile == {"RemoveFile", "MoveFile", "CopyFile", "ExtractArchive"}

NeedDirectory == {"RemoveDirectory", "RemoveDirectoryRecursive", "MoveDirectory", "CompressDirectory"}

\* the source of the call is not of the kind the operation requires
WrongKind ==
    \/ call.name \in NeedFile /\ ~IsFile(pre, call.src)
    \/ call.name \in NeedDirectory /\ ~IsDirectory(pre, call.src)

\* C17: an operation called on a source of the wrong kind (or on a missing
\* source) reports failure and changes nothing in the file system; in
\* particular it creates no parent directory for its destination.
C17_KindPrecondition == WrongKind => (~call.ok /\ fs = pre)

\* CompressDirectory was given a file as its source and an archive path whose
\* parent is missing: it failed and the parent is still missing
C17_Witness ==
    /\ call.name = "CompressDirectory"
    /\ IsFile(pre, call.src)
    /\ call.dst = <<"n", "z">>
    /\ ~call.ok
    /\ ~PathExists(fs, <<"n">>)
    /\ fs = pre
(***************************************************************************)
(* Specification of the batch removals: the root holds entries "a", "s",   *)
(* "x" and "x.bak", each absent, a file of zero bytes or of one byte, an   *)
(* empty directory, or a directory holding a zero-byte file or an empty    *)
(* directory.  With ro, the removal of "s" fails and the others succeed.   *)
(***************************************************************************)
BatchEntry(name) ==
    {EmptyFn, At(<<name>>, FileNode(<<>>)), At(<<name>>, FileNode(<<1>>)), At(<<name>>, DirNode),
     Graft(<<name>>, At(<<"x">>, FileNode(<<>>))), Graft(<<name>>, At(<<"a">>, DirNode))}

BatchDirs == {<<>>, <<"a">>, <<"m">>}

BatchPatterns == {"*", "x", "*.bak", "["}

BatchEnvs == {env \in Envs : ~env.xdev /\ ~env.full}

CalledBatch(name, dirPath, pattern, env, ok, count) ==
    [name |-> name, src |-> dirPath, dst |-> dirPath, env |-> env, ok |-> ok, backup |-> NoPath,
     pattern |-> pattern, count |-> count]

InitBatch ==
    /\ \E a \in BatchEntry("a"), s \in BatchEntry("s"), x \in BatchEntry("x"), b \in BatchEntry("x.bak") :
          fs = Merge(Root, Merge(a, Merge(s, Merge(x, b))))
    /\ InitCommon

DoRemoveEmptyFiles ==
    /\ call.name = "init"
    /\ \E dirPath \in BatchDirs, env \in BatchEnvs :
           \E r \in {RemoveEmptyFiles(fs, dirPath, env)} :
                /\ fs' = r.fs
                /\ pre' = fs
                /\ call' = CalledBatch("RemoveEmptyFiles", dirPath, "", env, r.ok, r.count)

DoRemoveEmptyDirectories ==
    /\ call.name = "init"
    /\ \E dirPath \in BatchDirs, env \in BatchEnvs :
           \E r \in {RemoveEmptyDirectories(fs, dirPath, env)} :
                /\ fs' = r.fs
                /\ pre' = fs
                /\ call' = CalledBatch("RemoveEmptyDirectories", dirPath, "", env, r.ok, r.count)

DoRemoveByPattern ==
    /\ call.name = "init"
    /\ \E dirPath \in BatchDirs, pattern \in BatchPatterns, env \in BatchEnvs :
           \E r \in {RemoveByPattern(fs, dirPath, pattern, env)} :
                /\ fs' = r.fs
                /\ pre' = fs
                /\ call' = CalledBatch("RemoveByPattern", dirPath, pattern, env, r.ok, r.count)

NextBatch ==
    \/ DoRemoveEmptyFiles
    \/ DoRemoveEmptyDirectories
    \/ DoRemoveByPattern

SpecBatch == InitBatch /\ [][NextBatch]_vars

(***************************************************************************)
(* Claims about batch removals.                                            *)
(***************************************************************************)
BatchNames == {"RemoveEmptyFiles", "RemoveEmptyDirectories", "RemoveByPattern"}

\* the entries directly inside the directory that the call is to remove
Eligible ==
    {q \in Entries(pre, call.src) :
        IF call.name = "RemoveEmptyFiles" THEN IsFileEmpty(pre, q)
        ELSE IF call.name = "RemoveEmptyDirectories" THEN IsDirectoryEmpty(pre, q)
        ELSE IsFile(pre, q) /\ Match(call.pattern, Base(q)).match}

\* the pattern could not be applied to some file entry
MatchFailed ==
    /\ call.name = "RemoveByPattern"
    /\ \E q \in Entries(pre, call.src) : IsFile(pre, q) /\ Match(call.pattern, Base(q)).err

\* C18: a batch removal attempts every eligible entry directly inside the
\* directory, also after a removal failed; the count is the number of entries
\* removed, the flag is true iff no step on an item failed, and every entry
\* that is not eligible is as it was.
C18_BatchRemoval ==
    (call.name \in BatchNames /\ IsDirectory(pre, call.src)) =>
        /\ \A q \in Eligible : ~Protected(q, call.env) => q \notin DOMAIN fs
        /\ (DOMAIN pre) \ (DOMAIN fs) \subseteq Eligible
        /\ call.count = Cardinality((DOMAIN pre) \ (DOMAIN fs))
        /\ call.ok <=> (~MatchFailed /\ Eligible \subseteq (DOMAIN pre) \ (DOMAIN fs))
        /\ \A q \in (DOMAIN pre) \ Eligible : q \in DOMAIN fs /\ fs[q] = pre[q]
        /\ DOMAIN fs \subseteq DOMAIN pre

\* the removal of the empty directory s failed, the empty directory x after
\* it was removed all the same, and the call returned (false, 1)
C18_Witness ==
    /\ call.name = "RemoveEmptyDirectories"
    /\ call.src = <<>>
    /\ IsDirectoryEmpty(pre, <<"s">>) /\ IsDirectoryEmpty(pre, <<"x">>)
    /\ IsDirectory(fs, <<"s">>) /\ ~PathExists(fs, <<"x">>)
    /\ ~call.ok /\ call.count >= 1
(***************************************************************************)
(* Specification of splitting: a file "x" or "x.bak" of up to MaxLen bytes *)
(* is split, and the parts that came back are assembled again.             *)
(***************************************************************************)
RECURSIVE Contents(_)
Contents(n) ==
    IF n = 0 THEN {<<>>}
    ELSE Contents(n - 1) \cup {Append(d, b) : d \in {c \in Contents(n - 1) : Len(c) = n - 1}, b \in {1, 2}}

ChunkSizes ==
    {[huge |-> FALSE, n |-> c] : c \in 1..MaxChunk} \cup {[huge |-> TRUE, n |-> k] : k \in 0..1}

SplitSrcs == {<<"x">>, <<"x.bak">>, <<"m">>}

AssembleDsts == {<<"o">>, <<"e", "o">>, <<"x_1">>}

SplitEnvs == {env \in Envs : ~env.xdev /\ ~env.ro}

CalledSplit(name, src, chunk, dst, env, ok, parts, panicked) ==
    [name |-> name, src |-> src, dst |-> dst, env |-> env, ok |-> ok, backup |-> NoPath,
     chunk |-> chunk, parts |-> parts, panicked |-> panicked]

InitSplit ==
    /\ \E name \in {"x", "x.bak"}, d \in Contents(MaxLen),
          other \in {EmptyFn, At(<<"x_1">>, DirNode), At(<<"x_2">>, FileNode(<<9>>))} :
          fs = Merge(Root, Merge(At(<<name>>, FileNode(d)), other))
    /\ InitCommon

DoSplitFile ==
    /\ call.name = "init"
    /\ \E src \in SplitSrcs, chunk \in ChunkSizes, env \in SplitEnvs :
           \E r \in {SplitFile(fs, src, chunk, env)} :
                /\ fs' = r.fs
                /\ pre' = fs
                /\ call' = CalledSplit("SplitFile", src, chunk, NoPath, env, r.ok, r.parts, r.panicked)

\* the caller passes the slice it got from SplitFile
DoAssembleFiles ==
    /\ call.name = "SplitFile"
    /\ ~call.panicked
    /\ \E dst \in AssembleDsts, env \in SplitEnvs :
           \E r \in {AssembleFiles(fs, call.parts, dst, env)} :
                /\ fs' = r.fs
                /\ pre' = fs
                /\ call' = CalledSplit("AssembleFiles", call.src, call.chunk, dst, env, r.ok, call.parts, FALSE)

NextSplit ==
    \/ DoSplitFile
    \/ DoAssembleFiles

SpecSplit == InitSplit /\ [][NextSplit]_vars

(***************************************************************************)
(* Claims about splitting.                                                 *)
(***************************************************************************)
\* a split of a file of one or more bytes that nothing in the file system
\* hinders: data can be written and no part path is a directory
SplitPossible ==
    /\ call.name = "SplitFile"
    /\ IsFile(pre, call.src) /\ Len(pre[call.src].data) > 0
    /\ call.env = NoFault
    /\ \A i \in 1..CeilDiv(Len(pre[call.src].data), call.chunk) : ~IsDirectory(pre, PartPath(call.src, i))

RECURSIVE Concat(_, _, _)
Concat(f, paths, i) ==
    IF i > Len(paths) THEN <<>> ELSE f[paths[i]].data \o Concat(f, paths, i + 1)

\* C19: SplitFile of a file of n > 0 bytes with a chunk size c > 0 returns
\* ceil(n/c) part paths in order, every part but the last holds exactly c
\* bytes and the last at most c, and the source is unchanged; AssembleFiles
\* of these parts into another path yields the bytes of the original.
C19_SplitAssemble ==
    /\ SplitPossible =>
          /\ call.ok /\ ~call.panicked
          /\ call.parts = [i \in 1..CeilDiv(Len(pre[call.src].data), call.chunk) |-> PartPath(call.src, i)]
          /\ \A i \in 1..Len(call.parts) :
                 /\ IsFile(fs, call.parts[i])
                 /\ call.chunk.huge \/ Len(fs[call.parts[i]].data) <= call.chunk.n
                 /\ i < Len(call.parts) => Len(fs[call.parts[i]].data) = call.chunk.n
          /\ Concat(fs, call.parts, 1) = pre[call.src].data
          /\ fs[call.src] = pre[call.src]
    /\ (/\ call.name = "AssembleFiles"
        /\ call.ok
        /\ \A i \in 1..Len(call.parts) : call.parts[i] # call.dst) =>
          /\ IsFile(fs, call.dst)
          /\ fs[call.dst].data = Concat(pre, call.parts, 1)
(***************************************************************************)
(* Specification of the facades: a facade method is called on the tree     *)
(* "s", with the destination "d" for the moves.                            *)
(***************************************************************************)
InitFacade ==
    /\ \E s \in Shapes("s", MaxDepth, 1, FALSE), d \in Shapes("d", 0, 2, FALSE) :
          fs = Merge(Root, Merge(s, d))
    /\ InitCommon

DoMetadataGetFolderFileCount ==
    /\ call.name = "init"
    /\ \E path \in KindSrcs :
           /\ fs' = fs
           /\ pre' = fs
           /\ call' = CalledBatch("Metadata.GetFolderFileCount", path, "", NoFault, TRUE,
                                  Metadata_GetFolderFileCount(fs, path))

DoDirFunctionsDeleteDirectory ==
    /\ call.name = "init"
    /\ \E path \in KindSrcs, env \in Envs :
           \E r \in {DirFunctions_DeleteDirectory(fs, path, env)} :
                /\ fs' = r.fs
                /\ pre' = fs
                /\ call' = Called("DirFunctions.DeleteDirectory", path, path, env, r.ok, NoPath)

DoDirFunctionsMoveDirectory ==
    /\ call.name = "init"
    /\ \E src \in KindSrcs, dst \in KindDsts, env \in Envs :
           \E r \in {DirFunctions_MoveDirectory(fs, src, dst, env)} :
                /\ fs' = r.fs
                /\ pre' = fs
                /\ call' = Called("DirFunctions.MoveDirectory", src, dst, env, r.ok, NoPath)

DoFileFunctionsMoveFile ==
    /\ call.name = "init"
    /\ \E src \in KindSrcs, dst \in KindDsts, env \in Envs :
           \E r \in {FileFunctions_MoveFile(fs, src, dst, env)} :
                /\ fs' = r.fs
                /\ pre' = fs
                /\ call' = Called("FileFunctions.MoveFile", src, dst, env, r.ok, NoPath)

NextFacade ==
    \/ DoMetadataGetFolderFileCount
    \/ DoDirFunctionsDeleteDirectory
    \/ DoDirFunctionsMoveDirectory
    \/ DoFileFunctionsMoveFile

SpecFacade == InitFacade /\ [][NextFacade]_vars

\* the result and the effect of a call are those of the operation op on pre
SameAs(r) == fs = r.fs /\ call.ok = r.ok

\* C21: a facade method returns what the UFS operation of the same name
\* returns and has the same effect: Metadata.GetFolderFileCount counts the
\* files only, DirFunctions.DeleteDirectory deletes a directory with all its
\* contents.
C21_FacadeSameAsOperation ==
    /\ call.name = "Metadata.GetFolderFileCount" =>
           (fs = pre /\ call.count = GetFolderFileCount(pre, call.src))
    /\ call.name = "DirFunctions.DeleteDirectory" => SameAs(DeleteDirectory(pre, call.src, call.env))
    /\ call.name = "DirFunctions.MoveDirectory" => SameAs(MoveDirectory(pre, call.src, call.dst, call.env))
    /\ call.name = "FileFunctions.MoveFile" => SameAs(MoveFile(pre, call.src, call.dst, call.env))

(***************************************************************************)
(* Specification of the directory helpers: mergeDirectories is called as   *)
(* MoveDirectory calls it, with both paths directories; the recursive copy *)
(* is called with any paths, as DirFunctions.CopyDirectory allows, and so  *)
(* is MoveDirectory.                                                       *)
(***************************************************************************)
MergeSrcs == {<<"s">>, <<"s", "a">>}

MergeDsts == {<<"d">>, <<"d", "a">>, <<"s">>, <<"s", "a">>}

InitMerge ==
    /\ \E s \in Shapes("s", MaxDepth, 1, TRUE), d \in Shapes("d", MaxDepth, 2, FALSE) :
          fs = Merge(Root, Merge(s, d))
    /\ InitCommon

DoMergeDirectories ==
    /\ call.name = "init"
    /\ \E src \in MergeSrcs, dst \in MergeDsts, env \in Envs :
           /\ IsDirectory(fs, src)
           /\ IsDirectory(fs, dst)
           /\ \E r \in {mergeDirectories(fs, src, dst, env)} :
                /\ fs' = r.fs
                /\ pre' = fs
                /\ call' = Called("mergeDirectories", src, dst, env, r.ok, NoPath)

DoCopyDirectoryRecursive ==
    /\ call.name = "init"
    /\ \E src \in MergeSrcs, dst \in MergeDsts, env \in Envs :
           \E r \in {copyDirectoryRecursive(fs, src, dst, env)} :
                /\ fs' = r.fs
                /\ pre' = fs
                /\ call' = Called("copyDirectoryRecursive", src, dst, env, r.ok, NoPath)

NextMerge == DoMergeDirectories \/ DoCopyDirectoryRecursive \/ DoMoveDirectory

SpecMerge == InitMerge /\ [][NextMerge]_vars

(***************************************************************************)
(* Claims about mergeDirectories.                                          *)
(***************************************************************************)
\* the names of the entries of directory p in f
NamesIn(f, p) == {q[Len(q)] : q \in Entries(f, p)}

\* entry n of the merged source is now below the destination and no longer
\* below the source
EntryMoved(n) ==
    /\ ~PathExists(fs, Join(call.src, <<n>>))
    /\ PathExists(fs, Join(call.dst, <<n>>))

\* C22: mergeDirectories(src, dst) goes through every entry of src even when
\* one fails to move; it returns true and removes src iff every entry was
\* moved, and otherwise returns false and leaves src in place holding exactly
\* the entries that were not moved.
C22_MergeAllEntries ==
    call.name = "mergeDirectories" =>
        /\ call.ok => (~PathExists(fs, call.src)
                       /\ \A n \in NamesIn(pre, call.src) : EntryMoved(n))
        /\ ~call.ok =>
              /\ IsDirectory(fs, call.src)
              /\ NamesIn(fs, call.src) = {n \in NamesIn(pre, call.src) : ~EntryMoved(n)}
              /\ (NamesIn(fs, call.src) = {} => Protected(call.src, call.env))

(***************************************************************************)
(* Claims about copyDirectoryRecursive.                                    *)
(***************************************************************************)
\* the entry at relative path r of the source cannot be copied: something of
\* another kind is in the way at the target or above it, the target cannot be
\* created, or the entry's bytes cannot be written
CopyBlocked(r) ==
    \/ \E k \in 0..(Len(Join(call.dst, r)) - 1) : IsFile(pre, SubSeq(Join(call.dst, r), 1, k))
    \/ /\ PathExists(pre, Join(call.dst, r))
       /\ pre[Join(call.dst, r)].kind # pre[Join(call.src, r)].kind
    \/ Len(Join(call.dst, r)) > PathMax
    \/ /\ Protected(Join(call.dst, r), call.env)
       /\ (IsFile(pre, Join(call.src, r)) \/ ~PathExists(pre, Join(call.dst, r)))
    \/ /\ IsFile(pre, Join(call.src, r))
       /\ call.env.full
       /\ pre[Join(call.src, r)].data # <<>>

\* the tree at src is what it was before the call
SourceUnmodified ==
    /\ Under(fs, call.src) = Under(pre, call.src)
    /\ \A p \in Under(pre, call.src) : fs[p] = pre[p]

\* C23: in copyDirectoryRecursive(src, dst) a file or subtree that cannot be
\* copied makes the call return false, but every other entry is still
\* attempted: on return every entry that could be copied is below dst with
\* src's content, and src is not modified.
C23_CopyContinues ==
    (call.name = "copyDirectoryRecursive" /\ IsDirectory(pre, call.src)) =>
        /\ SourceUnmodified
        /\ \A r \in RelPaths(pre, call.src) :
               ~CopyBlocked(r) =>
                   /\ PathExists(fs, Join(call.dst, r))
                   /\ fs[Join(call.dst, r)] = pre[Join(call.src, r)]
        /\ call.ok <=> (\A r \in RelPaths(pre, call.src) : ~CopyBlocked(r))

(***************************************************************************)
(* Claims about the recursion of the directory operations.                 *)
(***************************************************************************)
\* the paths the operation may create: the destination, its missing
\* ancestors, and one path below the destination for every entry that was
\* below the source when the call was made
ImagesOfSource ==
    {Join(call.dst, r) : r \in RelPaths(pre, call.src)}
        \cup {SubSeq(call.dst, 1, k) : k \in 0..Len(call.dst)}

\* C30: MoveDirectory and copyDirectoryRecursive visit only the entries that
\* existed below src when the call was made, also for a destination inside the
\* source: they never descend into a directory they created themselves, so
\* everything they create is the image of an entry of the source.
C30_VisitsOnlySourceEntries ==
    (/\ call.name \in {"MoveDirectory", "copyDirectoryRecursive"}
     /\ IsDirectory(pre, call.src)) =>
        (DOMAIN fs) \ (DOMAIN pre) \subseteq ImagesOfSource

(***************************************************************************)
(* Specification of the steps of mergeDirectories: the loop over the       *)
(* entries of the source (nested merges included), then the removal of the *)
(* source directory.                                                       *)
(***************************************************************************)
DoMergeLoop ==
    /\ call.name = "init"
    /\ \E src \in MergeSrcs, dst \in MergeDsts, env \in Envs :
           /\ IsDirectory(fs, src)
           /\ IsDirectory(fs, dst)
           /\ \E l \in {mergeEntries(fs, src, dst, osReadDir(fs, src), 1, TRUE, env)} :
                /\ fs' = l.fs
                /\ pre' = fs
                /\ call' = Called("mergeDirectories.loop", src, dst, env, l.ok, NoPath)

DoMergeCleanup ==
    /\ call.name = "mergeDirectories.loop"
    /\ \E r \in {removeMerged(Res(fs, call.ok), call.src, call.env)} :
           /\ fs' = r.fs
           /\ pre' = pre
           /\ call' = Called("mergeDirectories", call.src, call.dst, call.env, r.ok, NoPath)

NextPostOrder == DoMergeLoop \/ DoMergeCleanup

SpecPostOrder == InitMerge /\ [][NextPostOrder]_vars

\* the files below directory p of f, relative to p, are in g below q with
\* the same content
FilesCarried(f, p, g, q) ==
    \A r \in RelPaths(f, p) :
        IsFile(f, Join(p, r)) => (IsFile(g, Join(q, r)) /\ g[Join(q, r)] = f[Join(p, r)])

\* the step is the loop of a merge between two separate trees, and every
\* source directory that is gone after it has all its files below the
\* destination
LoopKeepsEntries ==
    (/\ call'.name = "mergeDirectories.loop"
     /\ ~IsPrefix(call'.src, call'.dst)
     /\ ~IsPrefix(call'.dst, call'.src)) =>
        \A p \in Under(fs, call'.src) :
            (IsDirectory(fs, p) /\ ~PathExists(fs', p)) =>
                FilesCarried(fs, p, fs', Join(call'.dst, SubSeq(p, Len(call'.src) + 1, Len(p))))

\* the step removes at most the source directory of the merge, after the
\* loop returned success and when the directory has no entries
CleanupRemovesEmpty ==
    call'.name = "mergeDirectories" =>
        \/ fs' = fs
        \/ /\ call.name = "mergeDirectories.loop" /\ call.ok
           /\ IsDirectory(fs, call.src)
           /\ Entries(fs, call.src) = {}
           /\ fs' = Restrict(fs, (DOMAIN fs) \ {call.src})

\* C26: during a merge a source directory is removed only after all of its
\* entries have been processed and only if it is empty then, at every depth:
\* no step removes a source directory that still has entries.
C26_PostOrderCleanup == [][LoopKeepsEntries /\ CleanupRemovesEmpty]_vars

\* the nested directory s/a was merged into d/a entry by entry, then s
\* itself was removed
C26_Witness ==
    /\ call.name = "mergeDirectories" /\ call.ok
    /\ call.src = <<"s">> /\ call.dst = <<"d">>
    /\ call.env.xdev
    /\ IsFile(pre, <<"s", "a", "x">>) /\ IsDirectory(pre, <<"d", "a">>)
    /\ ~PathExists(fs, <<"s">>)
    /\ fs[<<"d", "a", "x">>] = pre[<<"s", "a", "x">>]

====
